---- MODULE Spec2Model ----
(***************************************************************************)
(* Model of the apprenticeship-data report scripts: the version resolver   *)
(* of utils.py (find_latest_file) and the pivot / row-shaping code of the  *)
(* quarterly reports (starts.py, london_sme.py, regions.py, funding.py,    *)
(* provider.py).                                                           *)
(*                                                                         *)
(* Strings that the code inspects character by character (file names) are  *)
(* tuples of one-character strings.  An academic year is the number its    *)
(* six digits spell (202425): for strings of six digits Python's string    *)
(* order is the numeric order.  A period key of the matrix, the string     *)
(* "<year>" or "<year> Q<n>", is the record [year |-> y, q |-> n] with     *)
(* q = 0 for the bare year.                                                *)
(***************************************************************************)
EXTENDS Integers, Sequences, FiniteSets, TLC

VARIABLES
    all_files,    \* find_latest_file: the candidates, in discovery order
    fpc,          \* find_latest_file: position in the function
    latest,       \* find_latest_file: the returned path, NotFound for None
    script,       \* the report script that runs
    starts_data,  \* the records extracted from the data file, in file order
    pc,           \* the script's position: "read" or "done"
    table,        \* the result of the script's prepare_*_table_data
    file_name,    \* extract_year_quarter_from_filename: the argument
    extracted,    \* extract_year_quarter_from_filename: the returned tuple
    mpc,          \* main: position in the function
    argv,         \* main: sys.argv[1:] as far as main tells the arguments apart
    default_file, \* main: the file that discovery found, NotFound for None
    csv_file_path,\* main: the file the report is read from
    exit_status,  \* main: the status the process ends with, <<>> before
    log,          \* main: the calls and file operations so far, in order
    disk,         \* main: what the path named on the command line holds
    company,      \* clean_company_name: the argument
    cleaned,      \* clean_company_name: the returned name, NotCleaned before
    all_vacancies,\* vacancies.py: the vacancies extracted from the file, in file order
    vpc,          \* vacancies.py: "read" while rows are read, then "done"
    out_rows,     \* vacancies.py: the rows handed to TableFormatter
    stats         \* vacancies.py: the result of aggregate_employers_by_location

\* the state of the function extract_year_quarter_from_filename run on its own
extractVars == <<file_name, extracted>>

\* the state of a script's main()
mainVars == <<mpc, argv, default_file, csv_file_path, exit_status, log, disk>>

\* the state of clean_company_name run on its own
cleanVars == <<company, cleaned>>

\* the state of the vacancy tables
vacancyVars == <<all_vacancies, vpc, out_rows, stats>>

vars == <<all_files, fpc, latest, script, starts_data, pc, table, extractVars, mainVars,
          cleanVars, vacancyVars>>

(***************************************************************************)
(* utils.py: characters                                                    *)
(***************************************************************************)
Digits == <<"0","1","2","3","4","5","6","7","8","9">>

Uppers == <<"A","B","C","D","E","F","G","H","I","J","K","L","M",
            "N","O","P","Q","R","S","T","U","V","W","X","Y","Z">>

Lowers == <<"a","b","c","d","e","f","g","h","i","j","k","l","m",
            "n","o","p","q","r","s","t","u","v","w","x","y","z">>

IsDigit(c) == \E i \in DOMAIN Digits : Digits[i] = c

\* int() of one digit
DigitVal(c) == (CHOOSE i \in DOMAIN Digits : Digits[i] = c) - 1

\* str.lower() of one character
LowerChar(c) ==
    IF \E i \in DOMAIN Uppers : Uppers[i] = c
    THEN Lowers[CHOOSE i \in DOMAIN Uppers : Uppers[i] = c]
    ELSE c

\* int() of a run of digits
RECURSIVE IntOf(_)
IntOf(s) ==
    IF s = <<>> THEN 0
    ELSE 10 * IntOf(SubSeq(s, 1, Len(s) - 1)) + DigitVal(s[Len(s)])

\* sub in s, without the lower()
InLowerCaseSensitive(sub, s) ==
    \E i \in 1..(Len(s) - Len(sub) + 1) :
        \A k \in DOMAIN sub : s[i + k - 1] = sub[k]

\* sub in s.lower()
InLower(sub, s) ==
    \E i \in 1..(Len(s) - Len(sub) + 1) :
        \A k \in DOMAIN sub : LowerChar(s[i + k - 1]) = sub[k]

(***************************************************************************)
(* utils.py: extract_year_quarter_from_filename                            *)
(***************************************************************************)
month_map ==
  << [name |-> <<"j","a","n">>, num |-> 1],
     [name |-> <<"f","e","b">>, num |-> 2],
     [name |-> <<"m","a","r">>, num |-> 3],
     [name |-> <<"a","p","r">>, num |-> 4],
     [name |-> <<"m","a","y">>, num |-> 5],
     [name |-> <<"j","u","n">>, num |-> 6],
     [name |-> <<"j","u","l">>, num |-> 7],
     [name |-> <<"a","u","g">>, num |-> 8],
     [name |-> <<"s","e","p">>, num |-> 9],
     [name |-> <<"o","c","t">>, num |-> 10],
     [name |-> <<"n","o","v">>, num |-> 11],
     [name |-> <<"d","e","c">>, num |-> 12],
     [name |-> <<"j","a","n","u","a","r","y">>, num |-> 1],
     [name |-> <<"f","e","b","r","u","a","r","y">>, num |-> 2],
     [name |-> <<"m","a","r","c","h">>, num |-> 3],
     [name |-> <<"a","p","r","i","l">>, num |-> 4],
     [name |-> <<"j","u","n","e">>, num |-> 6],
     [name |-> <<"j","u","l","y">>, num |-> 7],
     [name |-> <<"a","u","g","u","s","t">>, num |-> 8],
     [name |-> <<"s","e","p","t","e","m","b","e","r">>, num |-> 9],
     [name |-> <<"o","c","t","o","b","e","r">>, num |-> 10],
     [name |-> <<"n","o","v","e","m","b","e","r">>, num |-> 11],
     [name |-> <<"d","e","c","e","m","b","e","r">>, num |-> 12] >>

\* the start positions of the matches of (\d{4})(\d{2})
YearMatches(filename) ==
    {i \in 1..(Len(filename) - 5) : \A k \in 0..5 : IsDigit(filename[i + k])}

\* the start positions of the matches of -q(\d), re.IGNORECASE
QuarterMatches(filename) ==
    {i \in 1..(Len(filename) - 2) :
        /\ filename[i] = "-"
        /\ LowerChar(filename[i + 1]) = "q"
        /\ IsDigit(filename[i + 2])}

\* the last match instead of the first
Rightmost(S) == CHOOSE i \in S : \A j \in S : i >= j

\* re.search returns the leftmost match
Leftmost(S) == CHOOSE i \in S : \A j \in S : i <= j

\* the entries of month_map whose name occurs in filename.lower()
MonthHits(filename) ==
    {i \in DOMAIN month_map : InLower(month_map[i].name, filename)}

extract_year_quarter_from_filename(filename) ==
    IF YearMatches(filename) = {} THEN <<0, 0, 0>>
    ELSE
        LET y == Leftmost(YearMatches(filename))
            year_start == IntOf(SubSeq(filename, y, y + 3))
            year_end == IntOf(SubSeq(filename, y + 4, y + 5))
        IN  IF QuarterMatches(filename) # {}
            THEN <<year_start, year_end,
                   DigitVal(filename[Leftmost(QuarterMatches(filename)) + 2])>>
            ELSE IF MonthHits(filename) # {}
            THEN <<year_start, year_end, month_map[Leftmost(MonthHits(filename))].num>>
            ELSE <<year_start, year_end, 0>>

(***************************************************************************)
(* utils.py: find_latest_file                                              *)
(***************************************************************************)
\* os.path.basename: what follows the last "/"
basename(filepath) ==
    LET slashes == {i \in DOMAIN filepath : filepath[i] = "/"}
    IN  IF slashes = {} THEN filepath
        ELSE SubSeq(filepath, (CHOOSE i \in slashes : \A j \in slashes : j <= i) + 1,
                    Len(filepath))

file_sort_key(filepath) == extract_year_quarter_from_filename(basename(filepath))

\* Python's order of tuples of three integers: a < b
TupleLess(a, b) ==
    \/ a[1] < b[1]
    \/ a[1] = b[1] /\ a[2] < b[2]
    \/ a[1] = b[1] /\ a[2] = b[2] /\ a[3] < b[3]

\* a sort that is not stable: an element goes in front of its equals
InsertFileDescUnstable(sorted, x) ==
    LET n == Cardinality({i \in DOMAIN sorted : TupleLess(x.key, sorted[i].key)})
    IN  SubSeq(sorted, 1, n) \o <<x>> \o SubSeq(sorted, n + 1, Len(sorted))

\* list.sort(key=sort_key, reverse=True) computes each key once and is stable:
\* an element goes behind every element whose key is not smaller than its own
InsertFileDesc(sorted, x) ==
    LET n == Cardinality({i \in DOMAIN sorted : ~TupleLess(sorted[i].key, x.key)})
    IN  SubSeq(sorted, 1, n) \o <<x>> \o SubSeq(sorted, n + 1, Len(sorted))

RECURSIVE SortKeyedDesc(_)
SortKeyedDesc(keyed) ==
    IF keyed = <<>> THEN <<>>
    ELSE InsertFileDesc(SortKeyedDesc(SubSeq(keyed, 1, Len(keyed) - 1)), keyed[Len(keyed)])

SortFilesDesc(files) ==
    LET keyed == SortKeyedDesc([i \in DOMAIN files |->
                     [path |-> files[i], key |-> file_sort_key(files[i])]])
    IN  [i \in DOMAIN keyed |-> keyed[i].path]

\* v-202425-q1.csv
RootQ1 == <<"v","-","2","0","2","4","2","5","-","q","1",".","c","s","v">>
\* v-202425-q2.csv
RootQ2 == <<"v","-","2","0","2","4","2","5","-","q","2",".","c","s","v">>
\* v-202425-Q2.csv
RootUpperQ2 == <<"v","-","2","0","2","4","2","5","-","Q","2",".","c","s","v">>
\* v-new.csv
RootNoYear == <<"v","-","n","e","w",".","c","s","v">>
\* a_2024-25/s/v-202425-q2.csv
FolderQ2 == <<"a","_","2","0","2","4","-","2","5","/","s","/","v","-","2","0","2","4","2","5","-","q","2",".","c","s","v">>
\* a_202526/s/v-202324-q4.csv
FolderOld == <<"a","_","2","0","2","5","2","6","/","s","/","v","-","2","0","2","3","2","4","-","q","4",".","c","s","v">>
\* a_2024-25/s/v-202425-nov.csv
FolderNov == <<"a","_","2","0","2","4","-","2","5","/","s","/","v","-","2","0","2","4","2","5","-","n","o","v",".","c","s","v">>

\* what glob.glob(file_pattern) can find in the current directory
RootFiles == {RootQ1, RootQ2, RootUpperQ2, RootNoYear}

\* what glob.glob can find under the <prefix>_* folders
FolderFiles == {FolderQ2, FolderOld, FolderNov}

\* a glob returns distinct paths of what exists, in the directory's order
Listings(S) ==
    {s \in UNION {[1..n -> S] : n \in 0..Cardinality(S)} :
        \A i, j \in DOMAIN s : i # j => s[i] # s[j]}

NotFound == <<>>

GlobRoot ==
    /\ fpc = "root"
    /\ \E root_files \in Listings(RootFiles) :
          all_files' = all_files \o root_files
    /\ fpc' = "folders"
    /\ UNCHANGED <<latest, script, starts_data, pc, table>>
    /\ UNCHANGED <<extractVars, mainVars, cleanVars, vacancyVars>>

GlobFolders ==
    /\ fpc = "folders"
    /\ \E files \in Listings(FolderFiles) :
          all_files' = all_files \o files
    /\ fpc' = "sort"
    /\ UNCHANGED <<latest, script, starts_data, pc, table>>
    /\ UNCHANGED <<extractVars, mainVars, cleanVars, vacancyVars>>

ReturnLatest ==
    /\ fpc = "sort"
    /\ latest' = IF all_files = <<>> THEN NotFound
                 ELSE SortFilesDesc(all_files)[1]
    /\ fpc' = "done"
    /\ UNCHANGED <<all_files, script, starts_data, pc, table>>
    /\ UNCHANGED <<extractVars, mainVars, cleanVars, vacancyVars>>

(***************************************************************************)
(* The report scripts: records, the matrix, period keys                    *)
(***************************************************************************)
\* the most records a data file holds after filtering
MaxRecords == 3

\* config.py
STARTS_MIN_THRESHOLD == 3

\* london_sme.py: "4+ starts in any year"
LONDON_MAJOR_MIN == 4

FOUNDERS_CODERS == "FOUNDERS & CODERS"

ALWAYS_SHOW_PROVIDERS == {FOUNDERS_CODERS}

rogue_provider_names == <<"LONDON COLLEGE OF GLOBAL EDUCATION", "CITY COLLEGE OF LONDON">>

Scripts == {"starts", "london_sme", "regions", "funding", "provider"}

\* the academic years of the data files
Years == {202324, 202425}

\* the values of the script's dimension field after extraction; a provider
\* name may be empty
DimsOf(s) ==
    CASE s = "starts" -> {"ACME", "", FOUNDERS_CODERS}
      [] s = "london_sme" -> {"ACME", FOUNDERS_CODERS, "CITY COLLEGE OF LONDON"}
      [] s = "regions" -> {"London", "North West"}
      [] s = "funding" -> {"Large employers (levy-funded)", "SMEs (other funding)"}
      [] s = "provider" -> {"ST0116 Software developer", "ST0113 Software tester"}

\* start_quarter as extracted: 0 for an empty field
QuartersOf(s) ==
    CASE s \in {"starts", "london_sme"} -> {0, 1}
      [] s = "regions" -> {0, 1, 2, 4}
      [] s = "funding" -> {0, 1, 2}
      [] s = "provider" -> {0, 1, 4}

\* starts as extracted
StartsOf(s) == IF s \in {"starts", "london_sme"} THEN {1, 4} ELSE {1}

RecordsOf(s) ==
    [dim : DimsOf(s), year : Years, quarter : QuartersOf(s), starts : StartsOf(s)]

\* most_recent_year = None
None == 0

Year(y) == [year |-> y, q |-> 0]

YearQ(y, n) == [year |-> y, q |-> n]

\* ' Q' in year_key
IsQuarterly(key) == key.q > 0

\* dict.get(key, 0)
Get(data, key) == IF key \in DOMAIN data THEN data[key] ELSE 0

\* d[key] = n where the code has d[key] += n
AddToOverwrite(data, key, n) ==
    [k \in (DOMAIN data) \cup {key} |-> IF k = key THEN n ELSE data[k]]

\* if key not in d: d[key] = 0;  d[key] += n
AddTo(data, key, n) ==
    [k \in (DOMAIN data) \cup {key} |-> Get(data, k) + (IF k = key THEN n ELSE 0)]

EmptyDict == [k \in {} |-> 0]

RECURSIVE SumSeq(_)
SumSeq(s) == IF s = <<>> THEN 0 ELSE s[1] + SumSeq(Tail(s))

RECURSIVE SumKeys(_, _)
SumKeys(data, K) ==
    IF K = {} THEN 0
    ELSE LET k == CHOOSE x \in K : TRUE
         IN  data[k] + SumKeys(data, K \ {k})

Range(s) == {s[i] : i \in DOMAIN s}

\* the position of a dimension value in the matrix, 0 when it has no entry
IndexOf(aggregated, name) ==
    IF \E i \in DOMAIN aggregated : aggregated[i].name = name
    THEN CHOOSE i \in DOMAIN aggregated : aggregated[i].name = name
    ELSE 0

\* the year key of a record: quarterly for the most recent year
year_key_of(record, most_recent_year) ==
    IF most_recent_year # None /\ record.year = most_recent_year /\ record.quarter > 0
    THEN YearQ(record.year, record.quarter)
    ELSE Year(record.year)

\* one iteration of the aggregation loop.  The matrix is a dict of dicts: a
\* sequence of entries in insertion order, each with its dict of year keys.
AggregateRecord(aggregated, record, most_recent_year) ==
    LET withDim == IF IndexOf(aggregated, record.dim) = 0
                   THEN Append(aggregated, [name |-> record.dim, data |-> EmptyDict])
                   ELSE aggregated
        i == IndexOf(withDim, record.dim)
    IN  [withDim EXCEPT ![i].data =
            AddTo(@, year_key_of(record, most_recent_year), record.starts)]

RECURSIVE aggregate_starts_by_provider_year(_, _)
aggregate_starts_by_provider_year(data, most_recent_year) ==
    IF data = <<>> THEN <<>>
    ELSE AggregateRecord(
             aggregate_starts_by_provider_year(SubSeq(data, 1, Len(data) - 1),
                                               most_recent_year),
             data[Len(data)], most_recent_year)

\* sorted(set(record['year'] for record in starts_data))[-1]
MostRecentYear(data) ==
    CHOOSE y \in {data[i].year : i \in DOMAIN data} :
        \A i \in DOMAIN data : data[i].year <= y

AllYearKeys(aggregated) == UNION {DOMAIN aggregated[i].data : i \in DOMAIN aggregated}

\* sort_key: (year_part, int(q_part)), (year_key, 0) for a bare year
KeyLess(a, b) == a.year < b.year \/ (a.year = b.year /\ a.q < b.q)

\* sorted(all_year_keys, key=sort_key)
RECURSIVE SortedKeys(_)
SortedKeys(S) ==
    IF S = {} THEN <<>>
    ELSE LET m == CHOOSE x \in S : \A y \in S \ {x} : KeyLess(x, y)
         IN  <<m>> \o SortedKeys(S \ {m})

\* [key for key in year_keys if key.startswith(most_recent_year) and ' Q' in key]
QuarterlyKeys(year_keys, most_recent_year) ==
    SelectSeq(year_keys, LAMBDA key : key.year = most_recent_year /\ IsQuarterly(key))

\* the loop that builds final_year_keys evaluates quarterly_keys[0] for a
\* quarterly key: an IndexError when quarterly_keys is empty
PlanRaises(year_keys, quarterly_keys) ==
    quarterly_keys = <<>> /\ \E i \in DOMAIN year_keys : IsQuarterly(year_keys[i])

\* the total column put behind the first quarterly key instead of before it
RECURSIVE FinalYearKeysTotalBehind(_, _, _)
FinalYearKeysTotalBehind(year_keys, quarterly_keys, most_recent_year) ==
    IF year_keys = <<>> THEN <<>>
    ELSE LET key == year_keys[1]
             rest == FinalYearKeysTotalBehind(Tail(year_keys), quarterly_keys,
                                              most_recent_year)
         IN  IF ~IsQuarterly(key) THEN <<key>> \o rest
             ELSE IF key = quarterly_keys[1]
                  THEN <<key, Year(most_recent_year)>> \o rest
                  ELSE <<key>> \o rest

RECURSIVE FinalYearKeys(_, _, _)
FinalYearKeys(year_keys, quarterly_keys, most_recent_year) ==
    IF year_keys = <<>> THEN <<>>
    ELSE LET key == year_keys[1]
             rest == FinalYearKeys(Tail(year_keys), quarterly_keys, most_recent_year)
         IN  IF ~IsQuarterly(key) THEN <<key>> \o rest
             ELSE IF key = quarterly_keys[1]
                  THEN <<Year(most_recent_year), key>> \o rest
                  ELSE <<key>> \o rest

(***************************************************************************)
(* Row shaping shared by the scripts                                       *)
(***************************************************************************)
\* sum(starts for key, starts in year_data.items() if key.startswith(most_recent_year))
RecentStarts(year_data, most_recent_year) ==
    SumKeys(year_data, {k \in DOMAIN year_data : k.year = most_recent_year})

\* sum(year_data.get(q_key, 0) for q_key in quarterly_keys)
QuarterSum(year_data, quarterly_keys) ==
    SumSeq([i \in DOMAIN quarterly_keys |-> Get(year_data, quarterly_keys[i])])

\* a cell that reads the matrix in the total column too
CellValueNoQuarterSum(year_data, year_key, quarterly_keys, most_recent_year, guarded) ==
    Get(year_data, year_key)

\* the value of one cell of a row: the total column holds the sum of the
\* quarters.  guarded: the scripts that test "quarterly_keys and ..." first
CellValue(year_data, year_key, quarterly_keys, most_recent_year, guarded) ==
    IF year_key = Year(most_recent_year) /\ (guarded => quarterly_keys # <<>>)
    THEN QuarterSum(year_data, quarterly_keys)
    ELSE Get(year_data, year_key)

RowValues(year_data, year_keys, quarterly_keys, most_recent_year, guarded) ==
    [i \in DOMAIN year_keys |->
        CellValue(year_data, year_keys[i], quarterly_keys, most_recent_year, guarded)]

\* a total of the year column that reads the cell of the bare year
ColumnTotalsBareYear(entries, year_keys, quarterly_keys, most_recent_year, guarded) ==
    [i \in DOMAIN year_keys |->
        SumSeq([j \in DOMAIN entries |-> Get(entries[j].data, year_keys[i])])]

\* the sum of a column over a list of (name, year_data) entries
ColumnTotals(entries, year_keys, quarterly_keys, most_recent_year, guarded) ==
    [i \in DOMAIN year_keys |->
        SumSeq([j \in DOMAIN entries |->
            CellValue(entries[j].data, year_keys[i], quarterly_keys,
                      most_recent_year, guarded)])]

\* list.sort(key=..., reverse=True) on entries that carry their key in
\* .recent: stable, an entry goes behind every entry whose key is not smaller
InsertDesc(sorted, x) ==
    LET n == Cardinality({i \in DOMAIN sorted : sorted[i].recent >= x.recent})
    IN  SubSeq(sorted, 1, n) \o <<x>> \o SubSeq(sorted, n + 1, Len(sorted))

RECURSIVE SortDesc(_)
SortDesc(entries) ==
    IF entries = <<>> THEN <<>>
    ELSE InsertDesc(SortDesc(SubSeq(entries, 1, Len(entries) - 1)), entries[Len(entries)])

\* the entries with the value their sort key gives them
WithRecent(entries, most_recent_year) ==
    [i \in DOMAIN entries |->
        [name |-> entries[i].name, data |-> entries[i].data,
         recent |-> RecentStarts(entries[i].data, most_recent_year)]]

IndividualRows(entries, year_keys, quarterly_keys, most_recent_year, guarded, kind) ==
    [i \in DOMAIN entries |->
        [label |-> entries[i].name, kind |-> kind,
         values |-> RowValues(entries[i].data, year_keys, quarterly_keys,
                              most_recent_year, guarded)]]

\* a no-data result with the message in a row of its own
NoDataPlaceholderRow(dimension) ==
    [status |-> "nodata", headers |-> <<dimension>>,
     rows |-> <<[label |-> "No data available", kind |-> "individual", values |-> <<>>]>>]

NoData(dimension) ==
    [status |-> "nodata", headers |-> <<dimension, "No data available">>, rows |-> <<>>]

\* the function raised instead of returning
Raised == [status |-> "error"]

NoTable == [status |-> "none"]

(***************************************************************************)
(* starts.py: prepare_starts_table_data                                    *)
(***************************************************************************)
prepare_starts_table_data(data, min_starts) ==
    IF data = <<>> THEN NoData("Provider")
    ELSE
    LET most_recent_year == MostRecentYear(data)
        aggregated == aggregate_starts_by_provider_year(data, most_recent_year)
        sorted_keys == SortedKeys(AllYearKeys(aggregated))
        quarterly_keys == QuarterlyKeys(sorted_keys, most_recent_year)
        year_keys == FinalYearKeys(sorted_keys, quarterly_keys, most_recent_year)
        entries == WithRecent(aggregated, most_recent_year)
        IsMajor(e) == e.recent >= min_starts \/ e.name \in ALWAYS_SHOW_PROVIDERS
        major_providers == SortDesc(SelectSeq(entries, IsMajor))
        other_providers == SelectSeq(entries, LAMBDA e : ~IsMajor(e))
        year_totals == ColumnTotals(aggregated, year_keys, quarterly_keys,
                                    most_recent_year, FALSE)
        other_totals == ColumnTotals(other_providers, year_keys, quarterly_keys,
                                     most_recent_year, FALSE)
    IN  IF PlanRaises(sorted_keys, quarterly_keys) THEN Raised
        ELSE [status |-> "table",
              most_recent_year |-> most_recent_year,
              matrix |-> aggregated,
              quarterly_keys |-> quarterly_keys,
              year_keys |-> year_keys,
              rows |-> <<[label |-> "**Total**", kind |-> "total", values |-> year_totals]>>
                       \o IndividualRows(major_providers, year_keys, quarterly_keys,
                                         most_recent_year, FALSE, "individual")
                       \o (IF other_providers # <<>>
                           THEN <<[label |-> "All other providers", kind |-> "pooled",
                                   values |-> other_totals]>>
                           ELSE <<>>)]

(***************************************************************************)
(* london_sme.py                                                           *)
(***************************************************************************)
\* the manual adjustments, in the order of the dict
adjustments ==
    << [key |-> YearQ(202425, 3), additional_starts |-> 1],
       [key |-> YearQ(202425, 2), additional_starts |-> 2],
       [key |-> YearQ(202425, 1), additional_starts |-> 1],
       [key |-> Year(202324), additional_starts |-> 3],
       [key |-> Year(202223), additional_starts |-> 2] >>

RECURSIVE AddAdjustments(_, _)
AddAdjustments(year_data, adj) ==
    IF adj = <<>> THEN year_data
    ELSE AddAdjustments(AddTo(year_data, adj[1].key, adj[1].additional_starts), Tail(adj))

apply_founders_coders_adjustments(aggregated) ==
    LET withFc == IF IndexOf(aggregated, FOUNDERS_CODERS) = 0
                  THEN Append(aggregated, [name |-> FOUNDERS_CODERS, data |-> EmptyDict])
                  ELSE aggregated
        i == IndexOf(withFc, FOUNDERS_CODERS)
    IN  [withFc EXCEPT ![i].data = AddAdjustments(@, adjustments)]

\* the rogue providers left among the providers that are bucketed and totalled
RemainingProvidersWithRogue(aggregated) ==
    SelectSeq(aggregated, LAMBDA e : e.name # FOUNDERS_CODERS)

\* aggregated after fc_name and the rogue names were popped from it
RemainingProviders(aggregated) ==
    SelectSeq(aggregated,
              LAMBDA e : e.name # FOUNDERS_CODERS
                         /\ e.name \notin Range(rogue_provider_names))

\* max((starts for key, starts in year_data.items() if ' Q' not in key), default=0)
MaxStarts(year_data) ==
    LET vals == {year_data[k] : k \in {x \in DOMAIN year_data : ~IsQuarterly(x)}}
    IN  IF vals = {} THEN 0 ELSE CHOOSE v \in vals : \A w \in vals : w <= v

prepare_london_sme_table_data(data) ==
    IF data = <<>> THEN NoData("Provider")
    ELSE
    LET most_recent_year == MostRecentYear(data)
        aggregated == apply_founders_coders_adjustments(
                          aggregate_starts_by_provider_year(data, most_recent_year))
        sorted_keys == SortedKeys(AllYearKeys(aggregated))
        quarterly_keys == QuarterlyKeys(sorted_keys, most_recent_year)
        year_keys == FinalYearKeys(sorted_keys, quarterly_keys, most_recent_year)
        \* aggregated.pop(fc_name, {})
        fc == SelectSeq(aggregated, LAMBDA e : e.name = FOUNDERS_CODERS)
        \* aggregated.pop(rogue_name) for the rogue names the matrix holds
        rogue_providers ==
            SelectSeq([k \in DOMAIN rogue_provider_names |->
                          IF IndexOf(aggregated, rogue_provider_names[k]) = 0
                          THEN [name |-> rogue_provider_names[k], data |-> EmptyDict,
                                absent |-> TRUE]
                          ELSE [name |-> rogue_provider_names[k],
                                data |-> aggregated[IndexOf(aggregated,
                                                            rogue_provider_names[k])].data,
                                absent |-> FALSE]],
                      LAMBDA e : ~e.absent)
        remaining == RemainingProviders(aggregated)
        IsMajor(e) == MaxStarts(e.data) >= LONDON_MAJOR_MIN
        major_providers == SortDesc(WithRecent(SelectSeq(remaining, IsMajor),
                                               most_recent_year))
        small_providers == SelectSeq(remaining, LAMBDA e : ~IsMajor(e))
        year_totals == ColumnTotals(fc \o major_providers \o small_providers, year_keys,
                                    quarterly_keys, most_recent_year, FALSE)
        small_totals == ColumnTotals(small_providers, year_keys, quarterly_keys,
                                     most_recent_year, FALSE)
    IN  IF PlanRaises(sorted_keys, quarterly_keys) THEN Raised
        ELSE [status |-> "table",
              most_recent_year |-> most_recent_year,
              matrix |-> aggregated,
              quarterly_keys |-> quarterly_keys,
              year_keys |-> year_keys,
              rows |-> (IF fc[1].data # EmptyDict
                        THEN IndividualRows(fc, year_keys, quarterly_keys,
                                            most_recent_year, FALSE, "individual")
                        ELSE <<>>)
                       \o IndividualRows(major_providers, year_keys, quarterly_keys,
                                         most_recent_year, FALSE, "individual")
                       \o (IF small_providers # <<>>
                           THEN <<[label |-> "All other providers", kind |-> "pooled",
                                   values |-> small_totals]>>
                           ELSE <<>>)
                       \o <<[label |-> "**Total**", kind |-> "total",
                             values |-> year_totals]>>
                       \o IndividualRows(rogue_providers, year_keys, quarterly_keys,
                                         most_recent_year, FALSE, "closed")]

(***************************************************************************)
(* regions.py, provider.py: the quarterly breakdown is conditional         *)
(***************************************************************************)
\* the year is taken as complete only when it has every quarter
HasQ4AllQuarters(data, most_recent_year) ==
    \A n \in 1..4 : \E i \in DOMAIN data :
        data[i].year = most_recent_year /\ data[i].quarter = n

\* 4 in quarters_in_recent_year
HasQ4(data, most_recent_year) ==
    \E i \in DOMAIN data :
        data[i].year = most_recent_year /\ data[i].quarter > 0 /\ data[i].quarter = 4

aggregate_starts_by_region_year(data, most_recent_year) ==
    aggregate_starts_by_provider_year(data, most_recent_year)

aggregate_starts_by_standard_year(data, most_recent_year) ==
    aggregate_starts_by_provider_year(data, most_recent_year)

aggregate_starts_by_funding_year(data, most_recent_year) ==
    aggregate_starts_by_provider_year(data, most_recent_year)

\* the sort key of a row: the sum over the keys of the most recent year when
\* there are quarterly keys, year_data.get(most_recent_year, 0) otherwise
WithRecentGuarded(entries, quarterly_keys, most_recent_year) ==
    [i \in DOMAIN entries |->
        [name |-> entries[i].name, data |-> entries[i].data,
         recent |-> IF quarterly_keys # <<>>
                    THEN RecentStarts(entries[i].data, most_recent_year)
                    ELSE Get(entries[i].data, Year(most_recent_year))]]

\* the body the two functions share; aggregated is the matrix of the script
ConditionalTable(aggregated, most_recent_year) ==
    LET sorted_keys == SortedKeys(AllYearKeys(aggregated))
        quarterly_keys == QuarterlyKeys(sorted_keys, most_recent_year)
        year_keys == IF quarterly_keys # <<>>
                     THEN FinalYearKeys(sorted_keys, quarterly_keys, most_recent_year)
                     ELSE sorted_keys
        all_rows == SortDesc(WithRecentGuarded(aggregated, quarterly_keys,
                                               most_recent_year))
        year_totals == ColumnTotals(all_rows, year_keys, quarterly_keys,
                                    most_recent_year, TRUE)
    IN  [status |-> "table",
         most_recent_year |-> most_recent_year,
         matrix |-> aggregated,
         quarterly_keys |-> quarterly_keys,
         year_keys |-> year_keys,
         rows |-> <<[label |-> "**Total**", kind |-> "total", values |-> year_totals]>>
                  \o IndividualRows(all_rows, year_keys, quarterly_keys,
                                    most_recent_year, TRUE, "individual")]

prepare_regional_table_data(data) ==
    IF data = <<>> THEN NoData("Region")
    ELSE
    LET most_recent_year == MostRecentYear(data)
        year_for_quarterly_breakdown ==
            IF HasQ4(data, most_recent_year) THEN None ELSE most_recent_year
    IN  ConditionalTable(
            aggregate_starts_by_region_year(data, year_for_quarterly_breakdown),
            most_recent_year)

prepare_provider_table_data(data) ==
    IF data = <<>> THEN NoData("Standard")
    ELSE
    LET most_recent_year == MostRecentYear(data)
        year_for_quarterly_breakdown ==
            IF HasQ4(data, most_recent_year) THEN None ELSE most_recent_year
    IN  ConditionalTable(
            aggregate_starts_by_standard_year(data, year_for_quarterly_breakdown),
            most_recent_year)

(***************************************************************************)
(* funding.py: prepare_funding_table_data                                  *)
(***************************************************************************)
FUNDING_LEVY_LABEL == "Large employers (levy-funded)"

FUNDING_OTHER_LABEL == "SMEs (other funding)"

\* the first component of the sort key of a funding type
FundingRank(x) ==
    IF x = FUNDING_LEVY_LABEL THEN 0 ELSE IF x = FUNDING_OTHER_LABEL THEN 1 ELSE 2

\* sorted(aggregated.keys(), key=lambda x: (rank, x)): an entry goes behind
\* the entries of a rank not greater than its own (the two labels of the
\* model have different ranks, the second component never decides)
InsertByRank(sorted, x) ==
    LET n == Cardinality({i \in DOMAIN sorted :
                             FundingRank(sorted[i].name) <= FundingRank(x.name)})
    IN  SubSeq(sorted, 1, n) \o <<x>> \o SubSeq(sorted, n + 1, Len(sorted))

RECURSIVE SortByRank(_)
SortByRank(entries) ==
    IF entries = <<>> THEN <<>>
    ELSE InsertByRank(SortByRank(SubSeq(entries, 1, Len(entries) - 1)),
                      entries[Len(entries)])

prepare_funding_table_data(data) ==
    IF data = <<>> THEN NoData("Funding Type")
    ELSE
    LET most_recent_year == MostRecentYear(data)
        aggregated == aggregate_starts_by_funding_year(data, most_recent_year)
        sorted_keys == SortedKeys(AllYearKeys(aggregated))
        quarterly_keys == QuarterlyKeys(sorted_keys, most_recent_year)
        year_keys == FinalYearKeys(sorted_keys, quarterly_keys, most_recent_year)
        year_totals == ColumnTotals(aggregated, year_keys, quarterly_keys,
                                    most_recent_year, FALSE)
        funding_types == SortByRank(aggregated)
    IN  IF PlanRaises(sorted_keys, quarterly_keys) THEN Raised
        ELSE [status |-> "table",
              most_recent_year |-> most_recent_year,
              matrix |-> aggregated,
              quarterly_keys |-> quarterly_keys,
              year_keys |-> year_keys,
              rows |-> <<[label |-> "**Total**", kind |-> "total", values |-> year_totals]>>
                       \o IndividualRows(funding_types, year_keys, quarterly_keys,
                                         most_recent_year, FALSE, "individual")]

(***************************************************************************)
(* The scripts as a state machine                                          *)
(***************************************************************************)
\* sys.argv[1:] of a run without arguments
NoArgs == [help |-> FALSE, positional |-> <<>>]

\* extract_year_quarter_from_filename is not run on its own
ExtractIdle ==
    /\ file_name = <<>>
    /\ extracted = <<>>

\* no main() runs
\* clean_company_name has not returned
NotCleaned == [status |-> "none"]

\* clean_company_name is not called
CleanIdle ==
    /\ company = <<>>
    /\ cleaned = NotCleaned

\* no vacancy file is read
VacancyIdle ==
    /\ all_vacancies = <<>>
    /\ vpc = "idle"
    /\ out_rows = <<>>
    /\ stats = NoTable

MainIdle ==
    /\ mpc = "idle"
    /\ argv = NoArgs
    /\ default_file = NotFound
    /\ csv_file_path = NotFound
    /\ exit_status = <<>>
    /\ log = <<>>
    /\ disk = "missing"

Init ==
    /\ all_files = <<>>
    /\ fpc = "root"
    /\ latest = NotFound
    /\ script \in Scripts
    /\ starts_data = <<>>
    /\ pc = "read"
    /\ table = NoTable
    /\ ExtractIdle
    /\ MainIdle
    /\ CleanIdle
    /\ VacancyIdle

\* read_csv_data and the extract_* loop: one more row passes the filter
ReadRow ==
    /\ pc = "read"
    /\ Len(starts_data) < MaxRecords
    /\ \E record \in RecordsOf(script) : starts_data' = Append(starts_data, record)
    /\ UNCHANGED <<all_files, fpc, latest, script, pc, table>>
    /\ UNCHANGED <<extractVars, mainVars, cleanVars, vacancyVars>>

PrepareStarts ==
    /\ pc = "read"
    /\ script = "starts"
    /\ table' = prepare_starts_table_data(starts_data, STARTS_MIN_THRESHOLD)
    /\ pc' = "done"
    /\ UNCHANGED <<all_files, fpc, latest, script, starts_data>>
    /\ UNCHANGED <<extractVars, mainVars, cleanVars, vacancyVars>>

PrepareLondonSme ==
    /\ pc = "read"
    /\ script = "london_sme"
    /\ table' = prepare_london_sme_table_data(starts_data)
    /\ pc' = "done"
    /\ UNCHANGED <<all_files, fpc, latest, script, starts_data>>
    /\ UNCHANGED <<extractVars, mainVars, cleanVars, vacancyVars>>

PrepareRegional ==
    /\ pc = "read"
    /\ script = "regions"
    /\ table' = prepare_regional_table_data(starts_data)
    /\ pc' = "done"
    /\ UNCHANGED <<all_files, fpc, latest, script, starts_data>>
    /\ UNCHANGED <<extractVars, mainVars, cleanVars, vacancyVars>>

PrepareFunding ==
    /\ pc = "read"
    /\ script = "funding"
    /\ table' = prepare_funding_table_data(starts_data)
    /\ pc' = "done"
    /\ UNCHANGED <<all_files, fpc, latest, script, starts_data>>
    /\ UNCHANGED <<extractVars, mainVars, cleanVars, vacancyVars>>

PrepareProvider ==
    /\ pc = "read"
    /\ script = "provider"
    /\ table' = prepare_provider_table_data(starts_data)
    /\ pc' = "done"
    /\ UNCHANGED <<all_files, fpc, latest, script, starts_data>>
    /\ UNCHANGED <<extractVars, mainVars, cleanVars, vacancyVars>>

Next ==
    \/ ReadRow
    \/ PrepareStarts
    \/ PrepareLondonSme
    \/ PrepareRegional
    \/ PrepareFunding
    \/ PrepareProvider

Spec == Init /\ [][Next]_vars

InitResolver ==
    /\ all_files = <<>>
    /\ fpc = "root"
    /\ latest = NotFound
    /\ script = "starts"
    /\ starts_data = <<>>
    /\ pc = "read"
    /\ table = NoTable
    /\ ExtractIdle
    /\ MainIdle
    /\ CleanIdle
    /\ VacancyIdle

NextResolver == GlobRoot \/ GlobFolders \/ ReturnLatest

SpecResolver == InitResolver /\ [][NextResolver]_vars

(***************************************************************************)
(* starts.py: extract_apprenticeship_starts, the quarter of a row          *)
(***************************************************************************)
\* str.strip() of a field whose only whitespace is the blank
RECURSIVE Strip(_)
Strip(s) ==
    IF s = <<>> THEN s
    ELSE IF s[1] = " " THEN Strip(Tail(s))
    ELSE IF s[Len(s)] = " " THEN Strip(SubSeq(s, 1, Len(s) - 1))
    ELSE s

\* str.isdigit()
IsDigits(s) == s # <<>> /\ \A i \in DOMAIN s : IsDigit(s[i])

\* parse_positions of a string: any run of digits is accepted
parse_positions(positions_value, default) ==
    IF IsDigits(Strip(positions_value)) THEN IntOf(Strip(positions_value)) ELSE default

\* parse_positions(quarter_str, default=0) if quarter_str else 0
QuarterOfField(field) ==
    LET quarter_str == Strip(field)
    IN  IF quarter_str # <<>> THEN parse_positions(quarter_str, 0) ELSE 0

\* what the start_quarter field of a row can hold: "", "1", " 2 ", "4", "5",
\* "12", "Q1"
QuarterFields ==
    {<<>>, <<"1">>, <<" ", "2", " ">>, <<"4">>, <<"5">>, <<"1", "2">>, <<"Q", "1">>}

\* one row of the file passes the filter and is appended as a record
ExtractRow ==
    /\ pc = "read"
    /\ script = "starts"
    /\ Len(starts_data) < MaxRecords
    /\ \E field \in QuarterFields, year \in Years :
          starts_data' = Append(starts_data,
              [dim |-> "ACME", year |-> year, quarter |-> QuarterOfField(field),
               starts |-> parse_positions(<<"1">>, 0)])
    /\ UNCHANGED <<all_files, fpc, latest, script, pc, table>>
    /\ UNCHANGED <<extractVars, mainVars, cleanVars, vacancyVars>>

InitOrdinal == InitResolver

NextOrdinal == ExtractRow \/ PrepareStarts

\* starts.py from the rows of the file to the table
SpecOrdinal == InitOrdinal /\ [][NextOrdinal]_vars

(***************************************************************************)
(* utils.py: extract_year_quarter_from_filename run on its own             *)
(***************************************************************************)
\* the parts of which the file names are put together
\* "x-", "mar-", "summary-", "2024-", "x-1"
Heads ==
    { <<"x","-">>, <<"m","a","r","-">>, <<"s","u","m","m","a","r","y","-">>,
      <<"2","0","2","4","-">>, <<"x","-","1">> }

\* "202425", "20242", "", "000000"
YearParts ==
    { <<"2","0","2","4","2","5">>, <<"2","0","2","4","2">>, <<>>,
      <<"0","0","0","0","0","0">> }

\* "", "-q2", "-Q3", "-q7", "-q0", "-q", "-mar", "-March", "-MAY", "-june",
\* "-dec", "-December"
Tokens ==
    { <<>>, <<"-","q","2">>, <<"-","Q","3">>, <<"-","q","7">>, <<"-","q","0">>,
      <<"-","q">>, <<"-","m","a","r">>, <<"-","M","a","r","c","h">>,
      <<"-","M","A","Y">>, <<"-","j","u","n","e">>, <<"-","d","e","c">>,
      <<"-","D","e","c","e","m","b","e","r">> }

\* ".csv", "-nov.csv", "-q1.csv", "-202324.csv"
Tails ==
    { <<".","c","s","v">>, <<"-","n","o","v",".","c","s","v">>,
      <<"-","q","1",".","c","s","v">>,
      <<"-","2","0","2","3","2","4",".","c","s","v">> }

FileNames ==
    {h \o y \o t \o l : h \in Heads, y \in YearParts, t \in Tokens, l \in Tails}

\* the function has not returned
NotExtracted == <<>>

InitExtract ==
    /\ all_files = <<>>
    /\ fpc = "root"
    /\ latest = NotFound
    /\ script = "starts"
    /\ starts_data = <<>>
    /\ pc = "read"
    /\ table = NoTable
    /\ file_name \in FileNames
    /\ extracted = NotExtracted
    /\ MainIdle
    /\ CleanIdle
    /\ VacancyIdle

\* the call extract_year_quarter_from_filename(filename)
Extract ==
    /\ extracted = NotExtracted
    /\ file_name # <<>>
    /\ extracted' = extract_year_quarter_from_filename(file_name)
    /\ UNCHANGED <<all_files, fpc, latest, script, starts_data, pc, table, file_name>>
    /\ UNCHANGED <<mainVars, cleanVars, vacancyVars>>

NextExtract == Extract

SpecExtract == InitExtract /\ [][NextExtract]_vars

(***************************************************************************)
(* main() of starts.py, provider.py, regions.py and vacancies.py           *)
(***************************************************************************)
MainScripts == {"starts", "provider", "regions", "vacancies"}

\* the scripts whose main falls back on extract_from_zip_if_needed
ZipScripts == {"starts", "provider"}

\* an input_file argument
InputCsv == <<"d", ".", "c", "s", "v">>

\* a standard_code argument
StandardArg == <<"S", "T", "0", "1", "1", "6">>

\* sys.argv[1:]: whether -h or --help is among the arguments, and the
\* arguments that do not begin with a dash
ArgLines ==
    {NoArgs,
     [help |-> TRUE, positional |-> <<>>],
     [help |-> FALSE, positional |-> <<InputCsv>>],
     [help |-> FALSE, positional |-> <<StandardArg, InputCsv>>]}

\* the path named on the command line does not exist, or it does
DiskStates == {"missing", "present"}

ZipQ1 == <<"a","_","2","0","2","4","-","2","5","/","s","/","z","-","2","0","2","4","2","5","-","q","1",".","z","i","p">>

ZipQ2 == <<"a","_","2","0","2","4","-","2","5","/","s","/","z","-","2","0","2","4","2","5","-","q","2",".","z","i","p">>

\* what glob.glob can find of archives under the <prefix>_* folders
ZipFiles == {ZipQ1, ZipQ2}

ReadMe == <<"r", ".", "t", "x", "t">>

ZippedCsv == <<"z", ".", "c", "s", "v">>

\* zip_ref.namelist() of the archive that is opened
ZipContents == {<<>>, <<ReadMe>>, <<ReadMe, ZippedCsv>>}

startswith(s, prefix) ==
    Len(s) >= Len(prefix) /\ SubSeq(s, 1, Len(prefix)) = prefix

endswith(s, suffix) ==
    Len(s) >= Len(suffix) /\ SubSeq(s, Len(s) - Len(suffix) + 1, Len(s)) = suffix

\* os.path.dirname
dirname(filepath) ==
    LET slashes == {i \in DOMAIN filepath : filepath[i] = "/"}
    IN  IF slashes = {} THEN <<>>
        ELSE SubSeq(filepath, 1, (CHOOSE i \in slashes : \A j \in slashes : j <= i) - 1)

\* os.path.join of two parts
join(a, b) == IF a = <<>> THEN b ELSE a \o <<"/">> \o b

\* an entry of the log: a call, a file operation or a print
LogEntry(op, path) == [op |-> op, path |-> path]

\* extract_from_zip_if_needed for what the glob lists and what the newest
\* archive holds: the returned path and the file operations performed
extract_from_zip_if_needed(all_zip_files, namelist) ==
    IF all_zip_files = <<>> THEN [result |-> NotFound, ops |-> <<>>]
    ELSE
        LET zip_file == SortFilesDesc(all_zip_files)[1]
            csv_files == SelectSeq(namelist, LAMBDA f : endswith(f, <<".", "c", "s", "v">>))
            extract_path == dirname(zip_file)
        IN  IF csv_files # <<>>
            THEN [result |-> join(extract_path, csv_files[1]),
                  ops |-> <<LogEntry("open_zip", zip_file),
                            LogEntry("extract", join(extract_path, csv_files[1]))>>]
            ELSE [result |-> NotFound, ops |-> <<LogEntry("open_zip", zip_file)>>]

\* the file main reads, from the positional arguments
ChosenFile(s, positional_args, default) ==
    IF positional_args = <<>> THEN default
    ELSE CASE s \in {"starts", "regions"} ->
                  IF startswith(positional_args[1], <<"S", "T">>) /\ Len(positional_args[1]) >= 5
                  THEN IF Len(positional_args) >= 2 THEN positional_args[2] ELSE default
                  ELSE positional_args[1]
           [] s = "provider" ->
                  IF \/ endswith(positional_args[1], <<".", "c", "s", "v">>)
                     \/ \E i \in DOMAIN positional_args[1] : positional_args[1][i] = "/"
                  THEN positional_args[1]
                  ELSE IF Len(positional_args) >= 2 THEN positional_args[2] ELSE default
           [] s = "vacancies" -> positional_args[Len(positional_args)]

InitMain ==
    /\ CleanIdle
    /\ VacancyIdle
    /\ all_files = <<>>
    /\ fpc = "root"
    /\ latest = NotFound
    /\ script \in MainScripts
    /\ starts_data = <<>>
    /\ pc = "read"
    /\ table = NoTable
    /\ ExtractIdle
    /\ mpc = "find"
    /\ argv \in ArgLines
    /\ disk \in DiskStates
    /\ argv.positional = <<>> => disk = "missing"
    /\ default_file = NotFound
    /\ csv_file_path = NotFound
    /\ exit_status = <<>>
    /\ log = <<>>

\* the fallback tried whatever find_latest_file returned
FindReturnedAlwaysZip ==
    /\ mpc = "find"
    /\ fpc = "done"
    /\ default_file' = latest
    /\ mpc' = IF script \in ZipScripts THEN "zip" ELSE "check"
    /\ UNCHANGED <<all_files, fpc, latest, script, starts_data, pc, table, extractVars,
                   cleanVars, vacancyVars>>
    /\ UNCHANGED <<argv, csv_file_path, exit_status, log, disk>>

\* default_file = find_latest_file(...), and whether the fallback is tried
FindReturned ==
    /\ mpc = "find"
    /\ fpc = "done"
    /\ default_file' = latest
    /\ mpc' = IF latest = NotFound /\ script \in ZipScripts THEN "zip" ELSE "check"
    /\ UNCHANGED <<all_files, fpc, latest, script, starts_data, pc, table, extractVars,
                   cleanVars, vacancyVars>>
    /\ UNCHANGED <<argv, csv_file_path, exit_status, log, disk>>

\* default_file = extract_from_zip_if_needed(...)
ZipFallback ==
    /\ mpc = "zip"
    /\ \E all_zip_files \in Listings(ZipFiles), namelist \in ZipContents :
          LET r == extract_from_zip_if_needed(all_zip_files, namelist)
          IN  /\ default_file' = r.result
              /\ log' = log \o <<LogEntry("extract_from_zip_if_needed", <<>>)>> \o r.ops
    /\ mpc' = "check"
    /\ UNCHANGED <<all_files, fpc, latest, script, starts_data, pc, table, extractVars,
                   cleanVars, vacancyVars>>
    /\ UNCHANGED <<argv, csv_file_path, exit_status, disk>>

\* if not default_file: print the error, sys.exit(1)
NoDefaultExit ==
    /\ mpc = "check"
    /\ default_file = NotFound
    /\ log' = log \o <<LogEntry("print_error", <<>>)>>
    /\ exit_status' = <<1>>
    /\ mpc' = "exited"
    /\ UNCHANGED <<all_files, fpc, latest, script, starts_data, pc, table, extractVars,
                   cleanVars, vacancyVars>>
    /\ UNCHANGED <<argv, default_file, csv_file_path, disk>>

\* the loop over sys.argv[1:] and the choice of the file to read
ParseArgs ==
    /\ mpc = "check"
    /\ default_file # NotFound
    /\ IF argv.help
       THEN /\ csv_file_path' = default_file
            /\ log' = log \o <<LogEntry("print_doc", <<>>)>>
            /\ exit_status' = <<0>>
            /\ mpc' = "exited"
       ELSE /\ csv_file_path' = ChosenFile(script, argv.positional, default_file)
            /\ mpc' = "run"
            /\ UNCHANGED <<log, exit_status>>
    /\ UNCHANGED <<all_files, fpc, latest, script, starts_data, pc, table, extractVars,
                   cleanVars, vacancyVars>>
    /\ UNCHANGED <<argv, default_file, disk>>

\* the try block: read_csv_data of a file that is missing, that cannot be
\* read as CSV or that can, the table, the handlers of the exceptions
RunReport ==
    /\ mpc = "run"
    /\ \E holds \in (IF csv_file_path = default_file \/ disk = "present"
                     THEN {"invalid", "valid"} ELSE {"missing"}) :
          CASE holds = "missing" ->
                   /\ log' = log \o <<LogEntry("print_error", <<>>)>>
                   /\ exit_status' = <<1>>
            [] holds = "invalid" ->
                   /\ log' = log \o <<LogEntry("open", csv_file_path),
                                      LogEntry("print_error", <<>>)>>
                   /\ exit_status' = <<1>>
            [] holds = "valid" ->
                   /\ log' = log \o <<LogEntry("open", csv_file_path),
                                      LogEntry("print_table", csv_file_path)>>
                   /\ exit_status' = <<0>>
    /\ mpc' = "exited"
    /\ UNCHANGED <<all_files, fpc, latest, script, starts_data, pc, table, extractVars,
                   cleanVars, vacancyVars>>
    /\ UNCHANGED <<argv, default_file, csv_file_path, disk>>

NextMain ==
    \/ GlobRoot
    \/ GlobFolders
    \/ ReturnLatest
    \/ FindReturned
    \/ ZipFallback
    \/ NoDefaultExit
    \/ ParseArgs
    \/ RunReport

\* a run of a script's main from discovery to exit
SpecMain == InitMain /\ [][NextMain]_vars

(***************************************************************************)
(* combined.py: prepare_combined_table_data                                *)
(***************************************************************************)
major_regions == <<"London", "North West", "South East">>

funding_types == <<"Large employers", "SMEs">>

\* the regions of the rows of the data file
CombinedRegions == {"London", "Wales"}

\* the funding labels after extraction: an unknown funding type is kept
CombinedFunding == {"Large employers", "SMEs", "Unknown"}

\* the records of combined.py: the dimension is the tuple (region, funding_type)
CombinedRecords ==
    [dim : CombinedRegions \X CombinedFunding, year : Years, quarter : {0, 1}, starts : {1}]

aggregate_starts_by_region_funding_year(data, most_recent_year) ==
    aggregate_starts_by_provider_year(data, most_recent_year)

\* aggregated.get(key, {})
DataOf(aggregated, key) ==
    IF IndexOf(aggregated, key) = 0 THEN EmptyDict
    ELSE aggregated[IndexOf(aggregated, key)].data

\* the rows of the major regions: region by region, funding type by funding type
MajorRows(aggregated, year_keys, quarterly_keys, most_recent_year) ==
    [n \in 1..(Len(major_regions) * Len(funding_types)) |->
        LET region == major_regions[((n - 1) \div Len(funding_types)) + 1]
            funding_type == funding_types[((n - 1) % Len(funding_types)) + 1]
        IN  [label |-> <<region, funding_type>>, kind |-> "individual",
             values |-> RowValues(DataOf(aggregated, <<region, funding_type>>), year_keys,
                                  quarterly_keys, most_recent_year, FALSE)]]

\* fund == funding_type and reg not in major_regions
IsOtherRegion(name, funding_type) ==
    name[2] = funding_type /\ name[1] \notin Range(major_regions)

\* fund == funding_type
IsFunding(name, funding_type) == name[2] = funding_type

\* a row per funding type, summed over the other regions only or over all
FundingRows(aggregated, year_keys, quarterly_keys, most_recent_year, first, kind, others_only) ==
    [n \in DOMAIN funding_types |->
        [label |-> <<first, funding_types[n]>>, kind |-> kind,
         values |-> ColumnTotals(
                        SelectSeq(aggregated,
                            LAMBDA e : IF others_only
                                       THEN IsOtherRegion(e.name, funding_types[n])
                                       ELSE IsFunding(e.name, funding_types[n])),
                        year_keys, quarterly_keys, most_recent_year, FALSE)]]

prepare_combined_table_data(data) ==
    IF data = <<>> THEN NoData("Region / Employer Size")
    ELSE
    LET most_recent_year == MostRecentYear(data)
        aggregated == aggregate_starts_by_region_funding_year(data, most_recent_year)
        sorted == SortedKeys(AllYearKeys(aggregated))
        quarterly_keys == QuarterlyKeys(sorted, most_recent_year)
        year_keys == FinalYearKeys(sorted, quarterly_keys, most_recent_year)
    IN  [status |-> "table",
         most_recent_year |-> most_recent_year,
         matrix |-> aggregated,
         quarterly_keys |-> quarterly_keys,
         year_keys |-> year_keys,
         rows |-> <<[label |-> <<"**Grand Total**", "">>, kind |-> "total",
                     values |-> ColumnTotals(aggregated, year_keys, quarterly_keys,
                                             most_recent_year, FALSE)]>>
                  \o MajorRows(aggregated, year_keys, quarterly_keys, most_recent_year)
                  \o FundingRows(aggregated, year_keys, quarterly_keys, most_recent_year,
                                 "All other regions", "pooled", TRUE)
                  \o FundingRows(aggregated, year_keys, quarterly_keys, most_recent_year,
                                 "**Total**", "subtotal", FALSE)]

InitCombined ==
    /\ all_files = <<>>
    /\ fpc = "root"
    /\ latest = NotFound
    /\ script = "combined"
    /\ starts_data = <<>>
    /\ pc = "read"
    /\ table = NoTable
    /\ ExtractIdle
    /\ MainIdle
    /\ CleanIdle
    /\ VacancyIdle

\* read_csv_data and the loop of extract_combined_starts: one more row
ReadCombinedRow ==
    /\ pc = "read"
    /\ script = "combined"
    /\ Len(starts_data) < MaxRecords
    /\ \E record \in CombinedRecords : starts_data' = Append(starts_data, record)
    /\ UNCHANGED <<all_files, fpc, latest, script, pc, table>>
    /\ UNCHANGED <<extractVars, mainVars, cleanVars, vacancyVars>>

PrepareCombined ==
    /\ pc = "read"
    /\ script = "combined"
    /\ table' = prepare_combined_table_data(starts_data)
    /\ pc' = "done"
    /\ UNCHANGED <<all_files, fpc, latest, script, starts_data>>
    /\ UNCHANGED <<extractVars, mainVars, cleanVars, vacancyVars>>

NextCombined == ReadCombinedRow \/ PrepareCombined

\* combined.py from the rows of the file to the table
SpecCombined == InitCombined /\ [][NextCombined]_vars

(***************************************************************************)
(* monthly.py: aggregate_monthly_data, prepare_monthly_table_data          *)
(***************************************************************************)
ACADEMIC_MONTH_ORDER ==
    <<"Aug", "Sep", "Oct", "Nov", "Dec", "Jan", "Feb", "Mar", "Apr", "May", "Jun", "Jul">>

\* start_month after strip(), as its pieces: words, blanks and dashes
StartMonths ==
    {<<"01", " ", "Aug">>, <<"01", "-", "Sep">>, <<"01", " ", "August">>, <<>>, <<"-">>}

MonthlyRecords == [year : Years, start_month : StartMonths, starts : {1, 2}]

\* start_month.replace('-', ' ').split()
SplitMonth(start_month) ==
    SelectSeq([i \in DOMAIN start_month |->
                  IF start_month[i] = "-" THEN " " ELSE start_month[i]],
              LAMBDA piece : piece # " ")

\* [-1] of an empty list
MonthRaises(start_month) == start_month # <<>> /\ SplitMonth(start_month) = <<>>

\* the month name of a record
MonthNameOf(start_month) ==
    IF start_month # <<>>
    THEN SplitMonth(start_month)[Len(SplitMonth(start_month))]
    ELSE "Unknown"

\* one iteration of the loop of aggregate_monthly_data
AggregateMonth(aggregated, record) ==
    LET withYear == IF IndexOf(aggregated, record.year) = 0
                    THEN Append(aggregated, [name |-> record.year, data |-> EmptyDict])
                    ELSE aggregated
        i == IndexOf(withYear, record.year)
    IN  [withYear EXCEPT ![i].data =
            AddTo(withYear[i].data, MonthNameOf(record.start_month), record.starts)]

RECURSIVE aggregate_monthly_data(_)
aggregate_monthly_data(monthly_data) ==
    IF monthly_data = <<>> THEN <<>>
    ELSE AggregateMonth(aggregate_monthly_data(SubSeq(monthly_data, 1, Len(monthly_data) - 1)),
                        monthly_data[Len(monthly_data)])

\* sorted(aggregated.keys())
RECURSIVE SortedYears(_)
SortedYears(S) ==
    IF S = {} THEN <<>>
    ELSE LET m == CHOOSE x \in S : \A y \in S : x <= y
         IN  <<m>> \o SortedYears(S \ {m})

\* sum(aggregated[year].values()) for year in years
MonthlyTotal(aggregated, years) ==
    [i \in DOMAIN years |->
        SumKeys(DataOf(aggregated, years[i]), DOMAIN DataOf(aggregated, years[i]))]

\* a row per month of ACADEMIC_MONTH_ORDER, in that order
MonthRows(aggregated, years) ==
    [n \in DOMAIN ACADEMIC_MONTH_ORDER |->
        [label |-> ACADEMIC_MONTH_ORDER[n], kind |-> "individual",
         values |-> [i \in DOMAIN years |->
                        Get(DataOf(aggregated, years[i]), ACADEMIC_MONTH_ORDER[n])]]]

prepare_monthly_table_data(monthly_data) ==
    IF monthly_data = <<>> THEN NoData("Month")
    ELSE IF \E i \in DOMAIN monthly_data : MonthRaises(monthly_data[i].start_month)
    THEN Raised
    ELSE
    LET aggregated == aggregate_monthly_data(monthly_data)
        years == SortedYears({aggregated[i].name : i \in DOMAIN aggregated})
    IN  [status |-> "table",
         matrix |-> aggregated,
         years |-> years,
         rows |-> MonthRows(aggregated, years)
                  \o <<[label |-> "**Total**", kind |-> "total",
                        values |-> MonthlyTotal(aggregated, years)]>>]

InitMonthly ==
    /\ all_files = <<>>
    /\ fpc = "root"
    /\ latest = NotFound
    /\ script = "monthly"
    /\ starts_data = <<>>
    /\ pc = "read"
    /\ table = NoTable
    /\ ExtractIdle
    /\ MainIdle
    /\ CleanIdle
    /\ VacancyIdle

\* read_csv_data and the loop of extract_monthly_starts: one more row
ReadMonthlyRow ==
    /\ pc = "read"
    /\ script = "monthly"
    /\ Len(starts_data) < MaxRecords
    /\ \E record \in MonthlyRecords : starts_data' = Append(starts_data, record)
    /\ UNCHANGED <<all_files, fpc, latest, script, pc, table>>
    /\ UNCHANGED <<extractVars, mainVars, cleanVars, vacancyVars>>

PrepareMonthly ==
    /\ pc = "read"
    /\ script = "monthly"
    /\ table' = prepare_monthly_table_data(starts_data)
    /\ pc' = "done"
    /\ UNCHANGED <<all_files, fpc, latest, script, starts_data>>
    /\ UNCHANGED <<extractVars, mainVars, cleanVars, vacancyVars>>

NextMonthly == ReadMonthlyRow \/ PrepareMonthly

\* monthly.py from the rows of the file to the table
SpecMonthly == InitMonthly /\ [][NextMonthly]_vars

(***************************************************************************)
(* combined.py and monthly.py side by side                                 *)
(***************************************************************************)
InitFixedRows == InitCombined \/ InitMonthly

NextFixedRows == NextCombined \/ NextMonthly

\* the two scripts whose tables have rows of fixed categories
SpecFixedRows == InitFixedRows /\ [][NextFixedRows]_vars

(***************************************************************************)
(* utils.py: clean_company_name                                            *)
(***************************************************************************)
\* str.upper() of one character
UpperChar(c) ==
    IF \E i \in DOMAIN Lowers : Lowers[i] = c
    THEN Uppers[CHOOSE i \in DOMAIN Lowers : Lowers[i] = c]
    ELSE c

\* the legal designations, in the order the loop tries them
suffixes_to_remove ==
    << <<"L","I","M","I","T","E","D">>, <<"L","T","D">>, <<"L","T","D",".">>,
       <<"L","L","P">>, <<"P","L","C">>, <<"C","O","M","P","A","N","Y">>,
       <<"C","O">>, <<"C","O",".">>, <<"C","O","R","P">>,
       <<"C","O","R","P","O","R","A","T","I","O","N">>, <<"I","N","C">>,
       <<"I","N","C","O","R","P","O","R","A","T","E","D">>, <<"L","L","C">>,
       <<"L",".","L",".","C",".">>, <<"G","M","B","H">>, <<"A","G">>,
       <<"S","A">>, <<"S","R","L">>, <<"B","V">>, <<"N","V">>,
       <<"C",".","I",".","C",".">> >>

\* s.upper().endswith(suffix)
UpperEndsWith(s, suffix) ==
    /\ Len(s) >= Len(suffix)
    /\ \A k \in DOMAIN suffix : UpperChar(s[Len(s) - Len(suffix) + k]) = suffix[k]

\* one turn of the loop: the suffix behind a space, or else the suffix glued
\* to the end of a longer name
RemoveSuffix(cleaned_name, suffix) ==
    IF UpperEndsWith(cleaned_name, <<" ">> \o suffix)
    THEN SubSeq(cleaned_name, 1, Len(cleaned_name) - Len(suffix) - 1)
    ELSE IF UpperEndsWith(cleaned_name, suffix) /\ Len(cleaned_name) > Len(suffix)
    THEN SubSeq(cleaned_name, 1, Len(cleaned_name) - Len(suffix))
    ELSE cleaned_name

\* for suffix in suffixes_to_remove, from the i-th suffix on
RECURSIVE RemoveSuffixes(_, _)
RemoveSuffixes(cleaned_name, i) ==
    IF i > Len(suffixes_to_remove) THEN cleaned_name
    ELSE RemoveSuffixes(RemoveSuffix(cleaned_name, suffixes_to_remove[i]), i + 1)

\* None where a name is expected: no name of single characters equals it
NoneName == <<"None">>

clean_company_name(name) ==
    IF name = NoneName \/ name = <<>> \/ Strip(name) = <<>> THEN name
    ELSE Strip(RemoveSuffixes(Strip(name), 1))

\* the longest name that is cleaned
MaxNameLen == 5

\* the characters of which the names are put together
NameChars == {" ", "C", "O", "o", "A", "G", "t"}

RECURSIVE NamesOfLen(_)
NamesOfLen(n) ==
    IF n = 0 THEN {<<>>}
    ELSE {Append(s, c) : s \in NamesOfLen(n - 1), c \in NameChars}

\* the names, and None
CompanyNames == UNION {NamesOfLen(n) : n \in 0..MaxNameLen} \cup {NoneName}

InitClean ==
    /\ all_files = <<>>
    /\ fpc = "root"
    /\ latest = NotFound
    /\ script = "vacancies"
    /\ starts_data = <<>>
    /\ pc = "read"
    /\ table = NoTable
    /\ ExtractIdle
    /\ MainIdle
    /\ VacancyIdle
    /\ company \in CompanyNames
    /\ cleaned = NotCleaned

\* the call clean_company_name(name)
Clean ==
    /\ cleaned = NotCleaned
    /\ cleaned' = [status |-> "returned", value |-> clean_company_name(company)]
    /\ UNCHANGED <<all_files, fpc, latest, script, starts_data, pc, table, company>>
    /\ UNCHANGED <<extractVars, mainVars, vacancyVars>>

NextClean == Clean

SpecClean == InitClean /\ [][NextClean]_vars

(***************************************************************************)
(* vacancies.py: format_csv_output, aggregate_employers_by_location,       *)
(* format_employers_table                                                  *)
(***************************************************************************)
VACANCY_LARGE_PROVIDER_THRESHOLD == 10

VACANCY_MEDIUM_PROVIDER_MIN == 4

NON_LONDON_MIN_POSITIONS == 3

LONDON_KEYWORD == <<"l","o","n","d","o","n">>

\* the characters in the order of their code points
CharOrder == <<" ", ".">> \o Digits \o Uppers \o Lowers

CharRank(c) == CHOOSE i \in DOMAIN CharOrder : CharOrder[i] = c

\* Python's order of strings: a < b
RECURSIVE StrLess(_, _)
StrLess(a, b) ==
    IF b = <<>> THEN FALSE
    ELSE IF a = <<>> THEN TRUE
    ELSE IF a[1] = b[1] THEN StrLess(Tail(a), Tail(b))
    ELSE CharRank(a[1]) < CharRank(b[1])

\* the keys of a dict in the order in which they were first inserted
RECURSIVE FirstSeen(_)
FirstSeen(s) ==
    IF s = <<>> THEN <<>>
    ELSE LET rest == FirstSeen(SubSeq(s, 1, Len(s) - 1))
             x    == s[Len(s)]
         IN  IF \E i \in DOMAIN rest : rest[i] = x THEN rest ELSE Append(rest, x)

\* sum(parse_positions(v['positions']) for v in vacancies)
PositionsOf(vacancies) ==
    SumSeq([i \in DOMAIN vacancies |-> parse_positions(vacancies[i].positions, 1)])

\* provider_groups and provider_totals: a provider's vacancies and their sum
provider_totals(vacancies) ==
    LET providers == FirstSeen([i \in DOMAIN vacancies |-> vacancies[i].provider])
    IN  [k \in DOMAIN providers |->
            LET provider_vacancies ==
                    SelectSeq(vacancies, LAMBDA v : v.provider = providers[k])
            IN  [provider |-> providers[k],
                 total_positions |-> PositionsOf(provider_vacancies),
                 vacancies |-> provider_vacancies]]

\* sorted(..., key=total_positions, reverse=True): stable
InsertByPositionsDesc(sorted, x) ==
    LET n == Cardinality({i \in DOMAIN sorted :
                             sorted[i].total_positions >= x.total_positions})
    IN  SubSeq(sorted, 1, n) \o <<x>> \o SubSeq(sorted, n + 1, Len(sorted))

RECURSIVE SortByPositionsDesc(_)
SortByPositionsDesc(entries) ==
    IF entries = <<>> THEN <<>>
    ELSE InsertByPositionsDesc(SortByPositionsDesc(SubSeq(entries, 1, Len(entries) - 1)),
                               entries[Len(entries)])

\* the rows carry the text of their cells: kind names the fixed words of a
\* row ("SUBTOTAL", "(multiple employers)", "<n> other providers", ...) and
\* count the number <n> in them
\* the three categories of providers
IsDetailed(data) == data.total_positions > VACANCY_LARGE_PROVIDER_THRESHOLD

\* a summary row only above the minimum
IsMediumAboveMin(data) ==
    /\ ~IsDetailed(data)
    /\ data.total_positions > VACANCY_MEDIUM_PROVIDER_MIN

IsMedium(data) ==
    /\ ~IsDetailed(data)
    /\ data.total_positions >= VACANCY_MEDIUM_PROVIDER_MIN

IsSmall(data) == ~IsDetailed(data) /\ ~IsMedium(data)

\* employer_aggregates of one provider: (employer, town) with its positions
employer_aggregates_csv(provider_vacancies) ==
    LET keys == FirstSeen([i \in DOMAIN provider_vacancies |->
                    <<provider_vacancies[i].employer, provider_vacancies[i].town>>])
    IN  [k \in DOMAIN keys |->
            [employer |-> keys[k][1], town |-> keys[k][2],
             total_positions |->
                 PositionsOf(SelectSeq(provider_vacancies,
                     LAMBDA v : <<v.employer, v.town>> = keys[k]))]]

\* employer_totals[employer]
EmployerTotal(aggregates, employer) ==
    SumSeq([k \in DOMAIN aggregates |->
               IF aggregates[k].employer = employer
               THEN aggregates[k].total_positions ELSE 0])

\* sort(key=lambda x: (-x['total_positions'], x['employer'])): stable
InsertMultiVacancy(sorted, x) ==
    LET n == Cardinality({i \in DOMAIN sorted :
                 \/ sorted[i].total_positions > x.total_positions
                 \/ /\ sorted[i].total_positions = x.total_positions
                    /\ ~StrLess(x.employer, sorted[i].employer)})
    IN  SubSeq(sorted, 1, n) \o <<x>> \o SubSeq(sorted, n + 1, Len(sorted))

RECURSIVE SortMultiVacancy(_)
SortMultiVacancy(entries) ==
    IF entries = <<>> THEN <<>>
    ELSE InsertMultiVacancy(SortMultiVacancy(SubSeq(entries, 1, Len(entries) - 1)),
                            entries[Len(entries)])

NULL == <<"N","U","L","L">>

\* the rows of one provider with a detailed breakdown
DetailedRows(provider, data) ==
    LET aggregates == employer_aggregates_csv(data.vacancies)
        IsOther(agg_data) == EmployerTotal(aggregates, agg_data.employer) = 1
        others == SelectSeq(aggregates, IsOther)
        multi_vacancy_employers ==
            SortMultiVacancy(SelectSeq(aggregates, LAMBDA a : ~IsOther(a)))
    IN  [i \in DOMAIN multi_vacancy_employers |->
            [kind |-> "employer", provider |-> provider,
             employer |-> multi_vacancy_employers[i].employer, count |-> 0,
             town |-> IF multi_vacancy_employers[i].town # NULL
                      THEN multi_vacancy_employers[i].town ELSE <<>>,
             positions |-> multi_vacancy_employers[i].total_positions]]
        \o (IF Len(others) > 0
            THEN <<[kind |-> "other employers", provider |-> provider,
                    employer |-> <<>>, count |-> Len(others), town |-> <<>>,
                    positions |-> SumSeq([i \in DOMAIN others |->
                                             others[i].total_positions])]>>
            ELSE <<>>)
        \o <<[kind |-> "SUBTOTAL", provider |-> provider, employer |-> <<>>,
              count |-> 0, town |-> <<>>, positions |-> data.total_positions]>>

RECURSIVE Flatten(_)
Flatten(ss) == IF ss = <<>> THEN <<>> ELSE ss[1] \o Flatten(Tail(ss))

\* the rows format_csv_output hands to TableFormatter.to_csv
format_csv_output(vacancies) ==
    IF vacancies = <<>> THEN <<>>
    ELSE
    LET sorted_providers   == SortByPositionsDesc(provider_totals(vacancies))
        detailed_providers == SelectSeq(sorted_providers, IsDetailed)
        medium_providers   == SelectSeq(sorted_providers, IsMedium)
        small_providers    == SelectSeq(sorted_providers, IsSmall)
    IN  Flatten([i \in DOMAIN detailed_providers |->
                    DetailedRows(detailed_providers[i].provider, detailed_providers[i])])
        \o [i \in DOMAIN medium_providers |->
               [kind |-> "multiple employers", provider |-> medium_providers[i].provider,
                employer |-> <<>>, count |-> 0, town |-> <<>>,
                positions |-> medium_providers[i].total_positions]]
        \o (IF small_providers # <<>>
            THEN <<[kind |-> "other providers", provider |-> <<>>,
                    employer |-> <<>>, count |-> Len(small_providers), town |-> <<>>,
                    positions |-> SumSeq([i \in DOMAIN small_providers |->
                                             small_providers[i].total_positions])]>>
            ELSE <<>>)

\* LONDON_KEYWORD in town.lower() if town else False
IsLondon(town) == town # <<>> /\ InLower(LONDON_KEYWORD, town)

\* employer_aggregates: (employer_clean, provider_clean, town) with positions
employer_aggregates_by_location(vacancies) ==
    LET keys == FirstSeen([i \in DOMAIN vacancies |->
                    <<vacancies[i].employer_clean, vacancies[i].provider_clean,
                      vacancies[i].town>>])
    IN  [k \in DOMAIN keys |->
            [employer |-> keys[k][1], provider |-> keys[k][2], town |-> keys[k][3],
             total_positions |->
                 PositionsOf(SelectSeq(vacancies,
                     LAMBDA v : <<v.employer_clean, v.provider_clean, v.town>> = keys[k])),
             is_london |-> IsLondon(keys[k][3])]]

\* the other employers taken from more than the minimum on
ShownElsewhereAboveMin(data) ==
    ~data.is_london /\ data.total_positions > NON_LONDON_MIN_POSITIONS

ShownElsewhere(data) ==
    ~data.is_london /\ data.total_positions >= NON_LONDON_MIN_POSITIONS

aggregate_employers_by_location(vacancies) ==
    LET total_uk_positions == PositionsOf(vacancies)
        london_positions ==
            PositionsOf(SelectSeq(vacancies, LAMBDA v : IsLondon(v.town)))
        aggregates == employer_aggregates_by_location(vacancies)
        london_employers ==
            SortByPositionsDesc(SelectSeq(aggregates, LAMBDA d : d.is_london))
        other_location_employers ==
            SortByPositionsDesc(SelectSeq(aggregates, ShownElsewhere))
        accounted_positions ==
            london_positions
            + SumSeq([i \in DOMAIN other_location_employers |->
                         other_location_employers[i].total_positions])
    IN  [status |-> "stats",
         total_uk |-> total_uk_positions,
         london_total |-> london_positions,
         london_employers |-> london_employers,
         other_employers |-> other_location_employers,
         remaining |-> total_uk_positions - accounted_positions]

EmployerRows(employers, kind, default_town) ==
    [i \in DOMAIN employers |->
        [kind |-> kind, provider |-> employers[i].provider,
         employer |-> employers[i].employer,
         town |-> IF employers[i].town # <<>> THEN employers[i].town ELSE default_town,
         positions |-> employers[i].total_positions]]

SpacingRow ==
    [kind |-> "spacing", provider |-> <<>>, employer |-> <<>>, town |-> <<>>,
     positions |-> <<>>]

\* the rows format_employers_table hands to TableFormatter
format_employers_table(s) ==
    <<[kind |-> "UK total", provider |-> <<>>, employer |-> <<>>, town |-> <<>>,
       positions |-> s.total_uk],
      [kind |-> "London total", provider |-> <<>>, employer |-> <<>>, town |-> <<>>,
       positions |-> s.london_total],
      SpacingRow>>
    \o EmployerRows(s.london_employers, "london", <<"L","o","n","d","o","n">>)
    \o (IF s.london_employers # <<>> THEN <<SpacingRow>> ELSE <<>>)
    \o EmployerRows(s.other_employers, "other", <<>>)
    \o (IF s.other_employers # <<>> THEN <<SpacingRow>> ELSE <<>>)
    \o (IF s.remaining > 0
        THEN <<[kind |-> "All other employers", provider |-> <<>>, employer |-> <<>>,
                town |-> <<>>, positions |-> s.remaining]>>
        ELSE <<>>)

\* the most vacancies that are read
MaxVacancies == 3

\* "E", "E CO"
VacancyEmployers == {<<"E">>, <<"E"," ","C","O">>}

\* "P", "Q", "R"
VacancyProviders == {<<"P">>, <<"Q">>, <<"R">>}

\* "London", "Leeds", ""
VacancyTowns == {<<"L","o","n","d","o","n">>, <<"L","e","e","d","s">>, <<>>}

\* "4", "11", "": an empty field counts as one position
VacancyPositions == {<<"4">>, <<"1","1">>, <<>>}

\* vacancy_data of one row of the file
VacancyOf(employer_name, provider_name, town, positions) ==
    [employer |-> employer_name, provider |-> provider_name,
     employer_clean |-> clean_company_name(employer_name),
     provider_clean |-> clean_company_name(provider_name),
     town |-> town, positions |-> positions]

InitVacancies ==
    /\ all_files = <<>>
    /\ fpc = "root"
    /\ latest = NotFound
    /\ script = "vacancies"
    /\ starts_data = <<>>
    /\ pc = "read"
    /\ table = NoTable
    /\ ExtractIdle
    /\ MainIdle
    /\ CleanIdle
    /\ all_vacancies = <<>>
    /\ vpc = "read"
    /\ out_rows = <<>>
    /\ stats = NoTable

\* extract_software_developer_vacancies: one more row of the file
ReadVacancyRow ==
    /\ vpc = "read"
    /\ Len(all_vacancies) < MaxVacancies
    /\ \E e \in VacancyEmployers, p \in VacancyProviders, t \in VacancyTowns,
          n \in VacancyPositions :
           all_vacancies' = Append(all_vacancies, VacancyOf(e, p, t, n))
    /\ UNCHANGED <<vpc, out_rows, stats>>
    /\ UNCHANGED <<all_files, fpc, latest, script, starts_data, pc, table>>
    /\ UNCHANGED <<extractVars, mainVars, cleanVars>>

\* main with --csv: print(format_csv_output(vacancies))
FormatCsv ==
    /\ vpc = "read"
    /\ vpc' = "csv"
    /\ out_rows' = format_csv_output(all_vacancies)
    /\ UNCHANGED <<all_vacancies, stats>>
    /\ UNCHANGED <<all_files, fpc, latest, script, starts_data, pc, table>>
    /\ UNCHANGED <<extractVars, mainVars, cleanVars>>

\* main without --csv: format_employers_table(vacancies, output_format)
FormatEmployers ==
    /\ vpc = "read"
    /\ vpc' = "employers"
    /\ IF all_vacancies = <<>>
       THEN stats' = NoTable /\ out_rows' = <<>>
       ELSE /\ stats' = aggregate_employers_by_location(all_vacancies)
            /\ out_rows' = format_employers_table(stats')
    /\ UNCHANGED all_vacancies
    /\ UNCHANGED <<all_files, fpc, latest, script, starts_data, pc, table>>
    /\ UNCHANGED <<extractVars, mainVars, cleanVars>>

NextVacancies == ReadVacancyRow \/ FormatCsv \/ FormatEmployers

SpecVacancies == InitVacancies /\ [][NextVacancies]_vars

(***************************************************************************)
(* Properties of the version resolver                                      *)
(***************************************************************************)
\* the order of (yearStart, yearEnd, subPeriod) tuples: a >= b
LexGeq(a, b) ==
    \/ a[1] > b[1]
    \/ a[1] = b[1] /\ a[2] > b[2]
    \/ a[1] = b[1] /\ a[2] = b[2] /\ a[3] >= b[3]

VersionOf(path) == extract_year_quarter_from_filename(basename(path))

FirstIndex(path) == CHOOSE i \in DOMAIN all_files : all_files[i] = path

\* C1: find_latest_file returns a candidate whose version tuple, taken from
\* its basename, is greater than or equal to that of every candidate, and of
\* the candidates with the greatest tuple it returns the one discovered first.
C1_LatestIsGreatestFirstFound ==
    (fpc = "done" /\ all_files # <<>>) =>
        /\ latest \in Range(all_files)
        /\ \A i \in DOMAIN all_files : LexGeq(VersionOf(latest), VersionOf(all_files[i]))
        /\ \A i \in DOMAIN all_files :
              VersionOf(all_files[i]) = VersionOf(latest) => FirstIndex(latest) <= i

\* a run with three candidates of the greatest version, two from the current
\* directory and one from a folder, an older candidate found before them and
\* one in a folder whose name holds a later year than its file name
C1_Witness ==
    /\ fpc = "done"
    /\ latest = RootUpperQ2
    /\ FolderOld \in Range(all_files)
    /\ \E i, j, k, l \in DOMAIN all_files :
          /\ i < j /\ j < k /\ k < l
          /\ all_files[i] = RootQ1
          /\ all_files[j] = RootUpperQ2
          /\ all_files[k] = RootQ2
          /\ all_files[l] = FolderQ2

(***************************************************************************)
(* Properties of the report tables                                         *)
(***************************************************************************)
TableDone == pc = "done" /\ table.status = "table"

RowsOfKind(kinds) == SelectSeq(table.rows, LAMBDA r : r.kind \in kinds)

\* the value of a column summed over a list of rows
ColumnSum(rows, c) == SumSeq([j \in DOMAIN rows |-> rows[j].values[c]])

\* the quarterly keys of the most recent year that the matrix holds
RefinedKeys(matrix, most_recent_year) ==
    {k \in AllYearKeys(matrix) : k.year = most_recent_year /\ k.q > 0}

\* the sum of the measures of the records that satisfy Cond
MeasureSum(Cond(_)) ==
    SumSeq([j \in DOMAIN starts_data |->
               IF Cond(starts_data[j]) THEN starts_data[j].starts ELSE 0])

\* C2: in the tables of starts.py and london_sme.py the Total row equals, in
\* every column, the sum of the individually shown rows and the pooled row;
\* the "(closed)" rows are not counted.
C2_TotalInvariant ==
    (TableDone /\ script \in {"starts", "london_sme"}) =>
        /\ Len(RowsOfKind({"total"})) = 1
        /\ \A c \in DOMAIN table.year_keys :
              RowsOfKind({"total"})[1].values[c]
                  = ColumnSum(RowsOfKind({"individual", "pooled"}), c)

\* a london_sme table with an individual row, a pooled row and a closed row
\* that all hold starts of an older year
C2_Witness ==
    /\ TableDone
    /\ script = "london_sme"
    /\ \E c \in DOMAIN table.year_keys :
          /\ table.year_keys[c] = Year(202324)
          /\ \E r \in Range(RowsOfKind({"closed"})) : r.values[c] > 0
          /\ \E r \in Range(RowsOfKind({"pooled"})) : r.values[c] > 0
          /\ \E r \in Range(RowsOfKind({"individual"})) : r.values[c] > 3

\* C3: the period columns of a quarterly report hold no period key twice.
C3_NoDuplicateColumns ==
    TableDone =>
        \A i, j \in DOMAIN table.year_keys :
            i # j => table.year_keys[i] # table.year_keys[j]

\* the script aggregates with the quarterly breakdown of the most recent year
RefinementEnabled ==
    \/ script \in {"starts", "funding", "london_sme"}
    \/ ~\E j \in DOMAIN starts_data :
           /\ starts_data[j].year = MostRecentYear(starts_data)
           /\ starts_data[j].quarter = 4

\* C4: for every dimension key the quarterly values of the most recent year
\* add up to the value the bare year key holds when the same records are
\* aggregated with most_recent_year = None.
C4_RefinedSumEqualsUnrefined ==
    (TableDone /\ script # "london_sme" /\ RefinementEnabled) =>
        LET mry == MostRecentYear(starts_data)
            unrefined == aggregate_starts_by_provider_year(starts_data, None)
        IN  \A i \in DOMAIN table.matrix :
                SumKeys(table.matrix[i].data,
                        {k \in DOMAIN table.matrix[i].data : k.year = mry /\ k.q > 0})
                  = Get(unrefined[IndexOf(unrefined, table.matrix[i].name)].data, Year(mry))

\* the period key the claim gives a record
ClaimedKey(r) ==
    IF RefinementEnabled /\ r.year = MostRecentYear(starts_data) /\ r.quarter > 0
    THEN YearQ(r.year, r.quarter)
    ELSE Year(r.year)

EntryOf(label) == table.matrix[IndexOf(table.matrix, label)]

\* the number of rows that show a dimension value on its own
OwnRows(name) ==
    Cardinality({i \in DOMAIN table.rows :
                    table.rows[i].kind = "individual" /\ table.rows[i].label = name})

\* C6: under threshold bucketing (starts.py: min_starts and the always-show
\* set; london_sme.py: 4 starts) a provider whose total of the most recent
\* year reaches the threshold, or which is always shown, has exactly one row
\* of its own; every other provider has none and is counted once in the
\* pooled row.
C6_Partition ==
    (TableDone /\ script \in {"starts", "london_sme"}) =>
        LET mry == MostRecentYear(starts_data)
            threshold == IF script = "starts" THEN STARTS_MIN_THRESHOLD
                         ELSE LONDON_MAJOR_MIN
            providers == {starts_data[j].dim : j \in DOMAIN starts_data}
                            \ (IF script = "london_sme" THEN Range(rogue_provider_names)
                               ELSE {})
            Shown(name) ==
                \/ MeasureSum(LAMBDA r : r.dim = name /\ r.year = mry) >= threshold
                \/ name \in ALWAYS_SHOW_PROVIDERS
            pooled == {name \in providers : ~Shown(name)}
        IN  /\ \A name \in providers : OwnRows(name) = (IF Shown(name) THEN 1 ELSE 0)
            /\ Len(RowsOfKind({"pooled"})) = (IF pooled = {} THEN 0 ELSE 1)
            /\ \A c \in DOMAIN table.year_keys :
                  (pooled # {} /\ table.year_keys[c] # Year(mry)) =>
                      RowsOfKind({"pooled"})[1].values[c]
                          = MeasureSum(LAMBDA r : r.dim \in pooled
                                                  /\ ClaimedKey(r) = table.year_keys[c])

\* the position of the first column that holds a key
FirstColumn(key) ==
    CHOOSE c \in DOMAIN table.year_keys :
        /\ table.year_keys[c] = key
        /\ \A d \in DOMAIN table.year_keys : table.year_keys[d] = key => c <= d

\* C7: the period columns hold every key of the matrix in ascending order of
\* (base period, sub-period) with a bare year as sub-period 0, and when the
\* most recent year has quarterly keys a column keyed by the bare most recent
\* year stands immediately before its first quarterly column, whether or not
\* a record contributed to the bare key.
C7_ColumnPlan ==
    TableDone =>
        LET mry == table.most_recent_year
            refined == RefinedKeys(table.matrix, mry)
            keys == table.year_keys
        IN  /\ AllYearKeys(table.matrix) \subseteq Range(keys)
            /\ \A i, j \in DOMAIN keys :
                  i < j => (keys[i].year < keys[j].year
                            \/ (keys[i].year = keys[j].year /\ keys[i].q <= keys[j].q))
            /\ refined # {} =>
                  LET first == CHOOSE k \in refined : \A x \in refined : k.q <= x.q
                  IN  /\ first \in Range(keys)
                      /\ FirstColumn(first) > 1
                      /\ keys[FirstColumn(first) - 1] = Year(mry)

\* the funding.py table of an older year and quarters 1 and 2 of the most
\* recent year, no record of which lacks a quarter: the example of the claim
C7_Witness ==
    /\ TableDone
    /\ script = "funding"
    /\ \A j \in DOMAIN starts_data :
          starts_data[j].year = 202425 => starts_data[j].quarter > 0
    /\ table.year_keys = <<Year(202324), Year(202425), YearQ(202425, 1), YearQ(202425, 2)>>

\* the columns of the quarterly keys of the most recent year
QuarterColumns ==
    {c \in DOMAIN table.year_keys :
        table.year_keys[c].year = table.most_recent_year /\ table.year_keys[c].q > 0}

RECURSIVE SumColumns(_, _)
SumColumns(values, C) ==
    IF C = {} THEN 0
    ELSE LET c == CHOOSE x \in C : TRUE
         IN  values[c] + SumColumns(values, C \ {c})

\* C8: in every row of a table with quarter columns (the Total and the pooled
\* row included) the value in the total column of the most recent year is
\* the sum of the row's values in the quarter columns of that year.
C8_RefinementConservation ==
    (TableDone /\ QuarterColumns # {}) =>
        \A i \in DOMAIN table.rows :
            \A c \in DOMAIN table.year_keys :
                table.year_keys[c] = Year(table.most_recent_year) =>
                    table.rows[i].values[c]
                        = SumColumns(table.rows[i].values, QuarterColumns)

\* a regions.py table with two quarter columns and a row that has starts in
\* both of them
C8_Witness ==
    /\ TableDone
    /\ script = "regions"
    /\ Cardinality(QuarterColumns) = 2
    /\ \E i \in DOMAIN table.rows :
          /\ table.rows[i].kind = "individual"
          /\ \A c \in QuarterColumns : table.rows[i].values[c] > 0
          /\ \E c \in DOMAIN table.year_keys :
                table.year_keys[c] = Year(table.most_recent_year)
                /\ table.rows[i].values[c] = 2

\* C9: the matrix from which the columns are planned holds quarterly keys
\* only of the most recent year of the records, in london_sme.py after the
\* adjustments too.
C9_RefinedOnlyMostRecent ==
    TableDone =>
        \A k \in AllYearKeys(table.matrix) :
            k.q > 0 => k.year = MostRecentYear(starts_data)

\* the total of the most recent year by which the claim orders a row: over
\* the whole table (the quarterly keys of the matrix, when it has any) ...
TotalByTable(label) ==
    IF RefinedKeys(table.matrix, table.most_recent_year) # {}
    THEN SumKeys(EntryOf(label).data,
                 {k \in DOMAIN EntryOf(label).data :
                     k.year = table.most_recent_year /\ k.q > 0})
    ELSE Get(EntryOf(label).data, Year(table.most_recent_year))

\* ... or row by row (the quarterly keys of the row, when it has any)
TotalByRow(label) ==
    LET refined == {k \in DOMAIN EntryOf(label).data :
                       k.year = table.most_recent_year /\ k.q > 0}
    IN  IF refined # {} THEN SumKeys(EntryOf(label).data, refined)
        ELSE Get(EntryOf(label).data, Year(table.most_recent_year))

\* the first record of a dimension value
FirstRecord(name) ==
    CHOOSE j \in DOMAIN starts_data :
        /\ starts_data[j].dim = name
        /\ \A x \in DOMAIN starts_data : starts_data[x].dim = name => j <= x

OrderedBy(Total(_)) ==
    LET shown == RowsOfKind({"individual"})
    IN  \A i, j \in DOMAIN shown :
            i < j =>
                \/ Total(shown[i].label) > Total(shown[j].label)
                \/ /\ Total(shown[i].label) = Total(shown[j].label)
                   /\ FirstRecord(shown[i].label) < FirstRecord(shown[j].label)

\* C10: the individually shown rows of starts.py, regions.py and provider.py
\* stand in non-increasing order of their total of the most recent year (the
\* sum of the quarterly values when quarterly keys are present, the value of
\* the bare year otherwise), rows of equal total in the order in which their
\* dimension value first appears in the records.  The claim is taken to hold
\* when it holds under either reading of "when quarterly keys are present".
C10_RowOrder ==
    (TableDone /\ script \in {"starts", "regions", "provider"}) =>
        (OrderedBy(TotalByTable) \/ OrderedBy(TotalByRow))

\* the records with the measure of every record of a rogue provider set to 0
RogueZeroed ==
    [j \in DOMAIN starts_data |->
        IF starts_data[j].dim \in Range(rogue_provider_names)
        THEN [starts_data[j] EXCEPT !.starts = 0]
        ELSE starts_data[j]]

NotClosed(rows) == SelectSeq(rows, LAMBDA r : r.kind # "closed")

\* C11: in london_sme.py a rogue (closed) provider that occurs in the records
\* has exactly one row, the row marked "(closed)", which shows the provider's
\* own values, and its values reach no other row: the Total row, the pooled
\* row and the individual rows are what they are when the measures of the
\* rogue providers are 0.
C11_Exclusion ==
    (TableDone /\ script = "london_sme") =>
        /\ \A k \in DOMAIN rogue_provider_names :
              LET name == rogue_provider_names[k]
                  own == {i \in DOMAIN table.rows : table.rows[i].label = name}
              IN  (\E j \in DOMAIN starts_data : starts_data[j].dim = name) =>
                      /\ Cardinality(own) = 1
                      /\ \A i \in own :
                            /\ table.rows[i].kind = "closed"
                            /\ \A c \in DOMAIN table.year_keys :
                                  table.year_keys[c] # Year(table.most_recent_year) =>
                                      table.rows[i].values[c]
                                          = MeasureSum(LAMBDA r :
                                                /\ r.dim = name
                                                /\ ClaimedKey(r) = table.year_keys[c])
        /\ NotClosed(table.rows)
              = NotClosed(prepare_london_sme_table_data(RogueZeroed).rows)

\* a closed provider with 4 starts in a quarter in which the pooled row and
\* the Total row show the single start of another provider
C11_Witness ==
    /\ TableDone
    /\ script = "london_sme"
    /\ \E c \in DOMAIN table.year_keys :
          /\ table.year_keys[c] = YearQ(202324, 1)
          /\ \E r \in Range(RowsOfKind({"closed"})) : r.values[c] = 4
          /\ \E r \in Range(RowsOfKind({"pooled"})) : r.values[c] = 1
          /\ \E r \in Range(RowsOfKind({"total"})) : r.values[c] = 1

\* the adjustments london_sme.py defines for the period keys that satisfy Cond
AdjustmentSum(Cond(_)) ==
    SumSeq([i \in DOMAIN adjustments |->
               IF Cond(adjustments[i].key) THEN adjustments[i].additional_starts ELSE 0])

\* C12: for every non-empty record set london_sme.py returns a table in which
\* FOUNDERS & CODERS has exactly one row, also when no record names it; in
\* every column the row shows what the records give plus the adjustment of
\* the column's period, and the Total row counts the row.  For the total
\* column of the most recent year "the column's period" is read either as
\* the bare year key or as the whole year with its quarters.
C12_Adjustments ==
    (pc = "done" /\ script = "london_sme" /\ starts_data # <<>>) =>
        /\ table.status = "table"
        /\ LET own == {i \in DOMAIN table.rows : table.rows[i].label = FOUNDERS_CODERS}
           IN  /\ Cardinality(own) = 1
               /\ \A i \in own : \A c \in DOMAIN table.year_keys :
                     LET key == table.year_keys[c]
                         byKey == MeasureSum(LAMBDA r : /\ r.dim = FOUNDERS_CODERS
                                                        /\ ClaimedKey(r) = key)
                                    + AdjustmentSum(LAMBDA k : k = key)
                         byYear == MeasureSum(LAMBDA r : /\ r.dim = FOUNDERS_CODERS
                                                         /\ r.year = key.year)
                                    + AdjustmentSum(LAMBDA k : k.year = key.year)
                     IN  \/ table.rows[i].values[c] = byKey
                         \/ /\ key = Year(table.most_recent_year)
                            /\ QuarterColumns # {}
                            /\ table.rows[i].values[c] = byYear
        /\ \A c \in DOMAIN table.year_keys :
              RowsOfKind({"total"})[1].values[c]
                  = ColumnSum(RowsOfKind({"individual", "pooled"}), c)

\* C13: a record of the most recent year whose quarter is greater than 4
\* makes starts.py fail: no table is returned for such a record set, so no
\* table has a column for such a quarter.
C13_OrdinalOutOfDomainFails ==
    (pc = "done" /\ script = "starts"
     /\ \E j \in DOMAIN starts_data :
           /\ starts_data[j].year = MostRecentYear(starts_data)
           /\ starts_data[j].quarter > 4) =>
        table.status # "table"

(***************************************************************************)
(* Properties of extract_year_quarter_from_filename                        *)
(***************************************************************************)
Extracted == extracted # NotExtracted

\* the positions at which a run of at least six digits begins
LongRuns ==
    {i \in 1..(Len(file_name) - 5) :
        /\ \A k \in 0..5 : IsDigit(file_name[i + k])
        /\ (i = 1 \/ ~IsDigit(file_name[i - 1]))}

FirstRun == CHOOSE i \in LongRuns : \A j \in LongRuns : i <= j

\* the positions of the tokens -q<digit> and -Q<digit>
QuarterTokens ==
    {i \in 1..(Len(file_name) - 2) :
        /\ file_name[i] = "-"
        /\ file_name[i + 1] \in {"q", "Q"}
        /\ IsDigit(file_name[i + 2])}

\* C14: when the file name holds a run of six digits and a token -q<digit>
\* in either case, the sub-period returned is the digit of the (first) token,
\* it lies in 1..4, and a month name in the file name does not change it.
C14_QuarterToken ==
    (Extracted /\ LongRuns # {} /\ QuarterTokens # {}) =>
        LET first == CHOOSE i \in QuarterTokens : \A j \in QuarterTokens : i <= j
        IN  /\ extracted[3] = DigitVal(file_name[first + 2])
            /\ extracted[3] \in 1..4

\* the lower-case word occurs in the file name in some letter case
OccursAnyCase(word) ==
    \E i \in 1..(Len(file_name) - Len(word) + 1) :
        \A k \in DOMAIN word : file_name[i + k - 1] \in {word[k], UpperChar(word[k])}

\* the calendar numbers of the month names that occur in the file name
MonthNumbers ==
    {month_map[i].num : i \in {x \in DOMAIN month_map : OccursAnyCase(month_map[x].name)}}

\* C15: for a file name with a run of six digits and no token -q<digit> the
\* sub-period is the calendar number of a month name (abbreviation or full
\* name, any letter case) that occurs in the file name, that of the only
\* month when the names that occur are names of one month, and 0 when no
\* month name occurs.
C15_MonthName ==
    (Extracted /\ LongRuns # {} /\ QuarterTokens = {}) =>
        IF MonthNumbers = {} THEN extracted[3] = 0
        ELSE extracted[3] \in MonthNumbers /\ extracted[3] \in 1..12

\* the full name "December" with a capital and nothing else of a month
C15_Witness ==
    /\ Extracted
    /\ LongRuns # {}
    /\ QuarterTokens = {}
    /\ OccursAnyCase(<<"d","e","c","e","m","b","e","r">>)
    /\ \E i \in DOMAIN file_name : file_name[i] = "D"
    /\ MonthNumbers = {12}
    /\ extracted = <<2024, 25, 12>>

\* the year of the first run of at least six digits
YearOfFirstRun ==
    /\ extracted[1] = IntOf(SubSeq(file_name, FirstRun, FirstRun + 3))
    /\ extracted[2] = IntOf(SubSeq(file_name, FirstRun + 4, FirstRun + 5))

\* C16 as claimed: the result is (0, 0, 0) if and only if the file name holds
\* no run of six digits; otherwise yearStart and yearEnd are the integers of
\* the first four and the next two digits of the first such run.
C16_SentinelIffNoRun ==
    Extracted =>
        /\ (extracted = <<0, 0, 0>>) <=> (LongRuns = {})
        /\ LongRuns # {} => YearOfFirstRun

\* C16 as amended: the result is (0, 0, 0) if the file name holds no run of
\* six digits; otherwise yearStart and yearEnd are the integers of the first
\* four and the next two digits of the first such run, and the result is
\* (0, 0, 0) only if those six digits are zeros.
C16_SentinelIfNoRun ==
    Extracted =>
        /\ LongRuns = {} => extracted = <<0, 0, 0>>
        /\ LongRuns # {} =>
              /\ YearOfFirstRun
              /\ extracted = <<0, 0, 0>> =>
                    \A k \in 0..5 : file_name[FirstRun + k] = "0"

\* a file name with a run of four digits before its first run of six, which
\* is not its last
C16_Witness ==
    /\ Extracted
    /\ Cardinality(LongRuns) = 2
    /\ FirstRun = 6
    /\ extracted[1] = 2024
    /\ extracted[2] = 25

(***************************************************************************)
(* Determinism of the version resolver                                     *)
(***************************************************************************)
\* the orders in which a glob can list the same files
Reorderings(files) ==
    {[i \in DOMAIN files |-> files[p[i]]] : p \in Permutations(DOMAIN files)}

\* what the two globs found
RootPart == SelectSeq(all_files, LAMBDA f : f \in RootFiles)

FolderPart == SelectSeq(all_files, LAMBDA f : f \in FolderFiles)

\* C17: for the same set of candidate paths find_latest_file returns the
\* same file in whatever order the globs list the members of the set, sets
\* with two candidates of equal version tuples included.
C17_SameFileInAnyOrder ==
    (fpc = "done" /\ all_files # <<>>) =>
        \A r \in Reorderings(RootPart), f \in Reorderings(FolderPart) :
            SortFilesDesc(r \o f)[1] = latest

(***************************************************************************)
(* Empty input                                                             *)
(***************************************************************************)
\* the label of the first column of each report
DimensionLabel ==
    [s \in Scripts |->
        CASE s \in {"starts", "london_sme"} -> "Provider"
          [] s = "regions" -> "Region"
          [] s = "funding" -> "Funding Type"
          [] s = "provider" -> "Standard"]

EmptyInputDone == pc = "done" /\ starts_data = <<>>

\* C18 as claimed: for a record set that is empty after filtering the table
\* preparation of every report returns a no-data result made of an empty
\* column plan (no period columns) and a single placeholder row, and does
\* not raise.
C18_PlaceholderRow ==
    EmptyInputDone =>
        /\ table.status = "nodata"
        /\ Len(table.rows) = 1

\* C18 as amended: for a record set that is empty after filtering the table
\* preparation of every report returns, without raising, a no-data result
\* whose headers are the label of the report's first column and the
\* placeholder 'No data available' (no period columns) and which has no rows.
C18_NoDataResult ==
    EmptyInputDone =>
        /\ table.status = "nodata"
        /\ table.headers = <<DimensionLabel[script], "No data available">>
        /\ table.rows = <<>>

\* the funding report prepared from an empty record set
C18_Witness ==
    /\ EmptyInputDone
    /\ script = "funding"
    /\ table.headers = <<"Funding Type", "No data available">>

(***************************************************************************)
(* Properties of main()                                                    *)
(***************************************************************************)
\* an input_file argument is on the command line
GivenInputFile == \E i \in DOMAIN argv.positional : argv.positional[i] = InputCsv

Logged(op, path) == \E i \in DOMAIN log : log[i] = LogEntry(op, path)

LoggedOp(op) == \E i \in DOMAIN log : log[i].op = op

\* C19: a run that is given an input_file reads that file, and the file that
\* discovery found is read only when none is given; a run with an input_file
\* that exists reads it whether discovery found a default file or not.
C19_ExplicitInputFile ==
    (mpc = "exited" /\ ~argv.help) =>
        IF GivenInputFile
        THEN /\ csv_file_path = InputCsv
             /\ disk = "present" => Logged("open", InputCsv)
        ELSE csv_file_path = default_file

LatestYear == CHOOSE y \in {starts_data[i].year : i \in DOMAIN starts_data} :
                  \A i \in DOMAIN starts_data : starts_data[i].year <= y

\* the quarters of the records of the greatest year
LatestQuarters ==
    {starts_data[i].quarter : i \in {j \in DOMAIN starts_data : starts_data[j].year = LatestYear}}

\* the positions of the columns of the table that are quarter columns
QuarterPositions == {i \in DOMAIN table.year_keys : table.year_keys[i].q > 0}

\* C21: in regions.py and provider.py the most recent year is one annual
\* column and the table has no quarter columns when a record of that year has
\* quarter 4; quarter columns appear only when no record of the most recent
\* year has quarter 4 and one has a quarter above 0, they are columns of the
\* most recent year, and the column before the first of them is the total
\* column of that year.
C21_CompleteYearHeuristic ==
    (TableDone /\ script \in {"regions", "provider"}) =>
        /\ 4 \in LatestQuarters =>
              /\ QuarterPositions = {}
              /\ Cardinality({i \in DOMAIN table.year_keys :
                                 table.year_keys[i] = Year(LatestYear)}) = 1
        /\ QuarterPositions # {} =>
              /\ 4 \notin LatestQuarters
              /\ \E n \in LatestQuarters : n > 0
              /\ \A i \in QuarterPositions : table.year_keys[i].year = LatestYear
              /\ LET first == CHOOSE i \in QuarterPositions : \A j \in QuarterPositions : i <= j
                 IN  first > 1 /\ table.year_keys[first - 1] = Year(LatestYear)

\* regions.py with quarters 1 and 4 of the most recent year: one column a year
C21_Witness ==
    /\ TableDone
    /\ script = "regions"
    /\ LatestYear = 202425
    /\ {1, 4} \subseteq LatestQuarters
    /\ \E i \in DOMAIN starts_data : starts_data[i].year = 202324
    /\ table.year_keys = <<Year(202324), Year(202425)>>

\* provider.py with quarter 1 only of the most recent year: quarter columns
C21_WitnessQuarters ==
    /\ TableDone
    /\ script = "provider"
    /\ LatestQuarters = {1}
    /\ table.year_keys = <<Year(LatestYear), YearQ(LatestYear, 1)>>

(***************************************************************************)
(* Properties of the minimum of starts in provider.py                      *)
(***************************************************************************)
\* the starts of a dimension value in the most recent year
StartsInLatestYear(d) == MeasureSum(LAMBDA r : r.dim = d /\ r.year = LatestYear)

\* C22: provider.py shows individually only the standards with
\* STARTS_MIN_THRESHOLD or more starts in the most recent year, and groups
\* the others into one row 'All other standards'.
C22_SmallStandardsGrouped ==
    (TableDone /\ script = "provider") =>
        /\ \A i \in DOMAIN table.rows :
              table.rows[i].kind = "individual" =>
                  StartsInLatestYear(table.rows[i].label) >= STARTS_MIN_THRESHOLD
        /\ (\E j \in DOMAIN starts_data :
                StartsInLatestYear(starts_data[j].dim) < STARTS_MIN_THRESHOLD) =>
              Cardinality({i \in DOMAIN table.rows :
                              table.rows[i].label = "All other standards"}) = 1

(***************************************************************************)
(* Properties of the rows of fixed categories                              *)
(***************************************************************************)
\* the six (major region, funding type) pairs in the order of the table
FixedPairs ==
    << <<"London", "Large employers">>, <<"London", "SMEs">>,
       <<"North West", "Large employers">>, <<"North West", "SMEs">>,
       <<"South East", "Large employers">>, <<"South East", "SMEs">> >>

\* the twelve months from August to July
FixedMonths ==
    <<"Aug", "Sep", "Oct", "Nov", "Dec", "Jan", "Feb", "Mar", "Apr", "May", "Jun", "Jul">>

RowsIndividual == SelectSeq(table.rows, LAMBDA r : r.kind = "individual")

AllZero(values) == \A i \in DOMAIN values : values[i] = 0

\* the rows of the fixed categories are there, in order, and those of the
\* categories without a record hold zeros
FixedRowsShown ==
    /\ table.status = "table"
    /\ script = "combined" =>
          /\ [i \in DOMAIN RowsIndividual |-> RowsIndividual[i].label] = FixedPairs
          /\ \A i \in DOMAIN RowsIndividual :
                (\A j \in DOMAIN starts_data : starts_data[j].dim # FixedPairs[i]) =>
                    AllZero(RowsIndividual[i].values)
    /\ script = "monthly" =>
          /\ [i \in DOMAIN RowsIndividual |-> RowsIndividual[i].label] = FixedMonths
          /\ SubSeq(table.rows, 1, 12) = RowsIndividual

\* C23: for every record set that is not empty combined.py emits one row for
\* each of the 3 major regions x 2 funding types and monthly.py one row for
\* each of the 12 months of ACADEMIC_MONTH_ORDER in that order, with zeros
\* where the category has no record.
C23_FixedCategoryRows ==
    (pc = "done" /\ starts_data # <<>>) => FixedRowsShown

(***************************************************************************)
(* Properties of the totals of combined.py                                 *)
(***************************************************************************)
\* what the matrix holds of a tuple for a column: for the column of the most
\* recent year all the starts of that year, for any other column its key
\* (defined for non-empty record sets only)
MatrixValue(data, key) ==
    IF key = Year(LatestYear)
    THEN SumKeys(data, {k \in DOMAIN data : k.year = LatestYear})
    ELSE Get(data, key)

\* the sum of a column over the tuples of the matrix that satisfy Keep
MatrixSum(key, Keep(_)) ==
    SumSeq([j \in DOMAIN table.matrix |->
               IF Keep(table.matrix[j].name)
               THEN MatrixValue(table.matrix[j].data, key) ELSE 0])

RowLabelled(label) == table.rows[CHOOSE i \in DOMAIN table.rows : table.rows[i].label = label]

\* in column i the total row of a funding type is the sum of the rows of the
\* three major regions and of the row of the other regions
SplitAddsUp(i, f) ==
    RowLabelled(<<"**Total**", f>>).values[i] =
        RowLabelled(<<"London", f>>).values[i]
        + RowLabelled(<<"North West", f>>).values[i]
        + RowLabelled(<<"South East", f>>).values[i]
        + RowLabelled(<<"All other regions", f>>).values[i]

\* C24: in every column of the table of combined.py the Grand Total is the
\* sum over every (region, funding type) tuple of the matrix, and the total
\* row of a funding type is the sum over every tuple of that funding type,
\* which is the sum of the rows of the three major regions and of the row
\* 'All other regions' of that funding type.
C24_CombinedTotals ==
    (TableDone /\ script = "combined") =>
        \A i \in DOMAIN table.year_keys :
            /\ RowLabelled(<<"**Grand Total**", "">>).values[i] =
                  MatrixSum(table.year_keys[i], LAMBDA name : TRUE)
            /\ \A f \in {"Large employers", "SMEs"} :
                  /\ RowLabelled(<<"**Total**", f>>).values[i] =
                        MatrixSum(table.year_keys[i], LAMBDA name : name[2] = f)
                  /\ SplitAddsUp(i, f)

(***************************************************************************)
(* Properties of the total column of the most recent year                  *)
(***************************************************************************)
\* the Total row of the table
TotalRow == table.rows[CHOOSE i \in DOMAIN table.rows : table.rows[i].kind = "total"]

\* the first column keyed by the bare most recent year
LatestYearColumn ==
    CHOOSE i \in DOMAIN table.year_keys :
        /\ table.year_keys[i] = Year(LatestYear)
        /\ \A j \in DOMAIN table.year_keys : table.year_keys[j] = Year(LatestYear) => i <= j

\* C27: in starts.py, funding.py, regions.py and combined.py, for every record
\* set that is not empty, the table has a column of the most recent year and
\* the Total row holds in it the sum of the starts of all the records of that
\* year, those without a quarter included.
C27_LatestYearTotal ==
    (pc = "done" /\ starts_data # <<>>
        /\ script \in {"starts", "funding", "regions", "combined"}) =>
        /\ table.status = "table"
        /\ \E i \in DOMAIN table.year_keys : table.year_keys[i] = Year(LatestYear)
        /\ TotalRow.values[LatestYearColumn] = MeasureSum(LAMBDA r : r.year = LatestYear)

(***************************************************************************)
(* Properties of prepare_london_sme_table_data on any record set           *)
(***************************************************************************)
\* C28: prepare_london_sme_table_data returns a table, and does not raise,
\* for every record set that is not empty, whatever the most recent year of
\* the records is and whether or not a record of that year has a quarter.
C28_LondonSmeReturnsTable ==
    (pc = "done" /\ script = "london_sme" /\ starts_data # <<>>) =>
        table.status = "table"

(***************************************************************************)
(* Properties of the totals of monthly.py                                  *)
(***************************************************************************)
\* C29: in every year column of the table of monthly.py the Total row equals
\* the sum of the twelve month rows, for every record set, those with records
\* whose start_month is empty or names no month of ACADEMIC_MONTH_ORDER
\* included.
C29_MonthlyTotal ==
    (TableDone /\ script = "monthly") =>
        \A i \in DOMAIN table.years :
            TotalRow.values[i] =
                SumSeq([n \in DOMAIN RowsIndividual |-> RowsIndividual[n].values[i]])

(***************************************************************************)
(* Properties of clean_company_name                                        *)
(***************************************************************************)
\* the name ends with a listed designation as a word of its own
EndsWithDesignation(name) ==
    \E i \in DOMAIN suffixes_to_remove :
        UpperEndsWith(Strip(name), <<" ">> \o suffixes_to_remove[i])

\* C26: a name that does not end with one of the listed legal designations as
\* a separate trailing word is returned unchanged, apart from the trimming of
\* the surrounding whitespace (a name of whitespace only may come back as it
\* is).
C26_NameWithoutSuffixPreserved ==
    (cleaned.status = "returned" /\ company # NoneName /\ ~EndsWithDesignation(company)) =>
        cleaned.value \in {company, Strip(company)}


(***************************************************************************)
(* Properties of the vacancy CSV output                                    *)
(***************************************************************************)
\* the providers of the vacancies, in file order
ProviderNames == FirstSeen([i \in DOMAIN all_vacancies |-> all_vacancies[i].provider])

\* the total positions of a provider
TotalOfProvider(p) ==
    PositionsOf(SelectSeq(all_vacancies, LAMBDA v : v.provider = p))

\* the rows of a kind that name the provider
RowsOf(kinds, p) ==
    {i \in DOMAIN out_rows : out_rows[i].kind \in kinds /\ out_rows[i].provider = p}

\* the sum of the positions of the rows of some kinds
PositionsOfKinds(kinds) ==
    SumSeq([i \in DOMAIN out_rows |->
               IF out_rows[i].kind \in kinds THEN out_rows[i].positions ELSE 0])

BreakdownKinds == {"employer", "other employers", "SUBTOTAL"}

\* the providers with three positions or fewer
SmallProviders == SelectSeq(ProviderNames, LAMBDA p : TotalOfProvider(p) <= 3)

\* C25: in the CSV output every provider is in exactly one category by its
\* total positions: more than 10 gives a breakdown by employer that ends with
\* one SUBTOTAL row, 4 to 10 gives one summary row and nothing else, 3 or
\* fewer gives no row of its own and is counted in the one aggregated row;
\* the positions of the SUBTOTAL rows, the summary rows and the aggregated row
\* add up to the positions of all vacancies.
C25_ProviderCategories ==
    vpc = "csv" =>
        /\ \A k \in DOMAIN ProviderNames :
               LET p     == ProviderNames[k]
                   total == TotalOfProvider(p)
               IN  /\ total > 10 =>
                          /\ Cardinality(RowsOf({"SUBTOTAL"}, p)) = 1
                          /\ \A i \in RowsOf({"SUBTOTAL"}, p) : out_rows[i].positions = total
                          /\ SumSeq([i \in DOMAIN out_rows |->
                                 IF i \in RowsOf({"employer", "other employers"}, p)
                                 THEN out_rows[i].positions ELSE 0]) = total
                          /\ RowsOf({"multiple employers"}, p) = {}
                   /\ (total >= 4 /\ total <= 10) =>
                          /\ Cardinality(RowsOf({"multiple employers"}, p)) = 1
                          /\ \A i \in RowsOf({"multiple employers"}, p) :
                                 out_rows[i].positions = total
                          /\ RowsOf(BreakdownKinds, p) = {}
                   /\ total <= 3 =>
                          RowsOf(BreakdownKinds \cup {"multiple employers"}, p) = {}
        /\ LET aggregated == {i \in DOMAIN out_rows : out_rows[i].kind = "other providers"}
           IN  /\ Cardinality(aggregated) = (IF SmallProviders = <<>> THEN 0 ELSE 1)
               /\ \A i \in aggregated :
                      /\ out_rows[i].count = Len(SmallProviders)
                      /\ out_rows[i].positions =
                             SumSeq([k \in DOMAIN SmallProviders |->
                                        TotalOfProvider(SmallProviders[k])])
        /\ PositionsOfKinds({"SUBTOTAL", "multiple employers", "other providers"})
               = PositionsOf(all_vacancies)

\* a CSV output with a provider of each category
C25_Witness ==
    /\ vpc = "csv"
    /\ \E i, j, k \in DOMAIN out_rows :
           /\ out_rows[i].kind = "SUBTOTAL"
           /\ out_rows[j].kind = "multiple employers"
           /\ out_rows[k].kind = "other providers"


(***************************************************************************)
(* Properties of aggregate_employers_by_location                           *)
(***************************************************************************)
\* the (employer, provider, town) groups of the vacancies, in file order
EmployerGroups ==
    FirstSeen([i \in DOMAIN all_vacancies |->
        <<all_vacancies[i].employer_clean, all_vacancies[i].provider_clean,
          all_vacancies[i].town>>])

\* the positions of a group
GroupPositions(key) ==
    PositionsOf(SelectSeq(all_vacancies,
        LAMBDA v : <<v.employer_clean, v.provider_clean, v.town>> = key))

\* the sum of the positions of a list of employers
ListedPositions(employers) ==
    SumSeq([i \in DOMAIN employers |-> employers[i].total_positions])

\* the positions of the groups outside London with fewer than three positions
SmallGroupPositions ==
    SumSeq([k \in DOMAIN EmployerGroups |->
               IF ~IsLondon(EmployerGroups[k][3]) /\ GroupPositions(EmployerGroups[k]) < 3
               THEN GroupPositions(EmployerGroups[k]) ELSE 0])

\* C30: for every list of vacancies the UK total is the London total plus the
\* positions of the employers outside London that are shown (those with three
\* positions or more) plus the remainder; the London total is the sum of the
\* listed London employers; the remainder is not negative and is the sum of
\* the groups outside London with fewer than three positions.
C30_EmployerTotalsAddUp ==
    (vpc = "employers" /\ stats.status = "stats") =>
        /\ stats.total_uk = PositionsOf(all_vacancies)
        /\ stats.total_uk =
               stats.london_total + ListedPositions(stats.other_employers) + stats.remaining
        /\ \A i \in DOMAIN stats.other_employers :
               /\ ~IsLondon(stats.other_employers[i].town)
               /\ stats.other_employers[i].total_positions >= 3
        /\ stats.london_total = ListedPositions(stats.london_employers)
        /\ stats.remaining >= 0
        /\ stats.remaining = SmallGroupPositions

\* London employers, employers shown outside London and a remainder at once
C30_Witness ==
    /\ vpc = "employers"
    /\ stats.status = "stats"
    /\ stats.london_employers # <<>>
    /\ stats.other_employers # <<>>
    /\ stats.remaining > 0

====
